---- MODULE Spec2Model ----
(***************************************************************************)
(* Model of the SSH core of uplink-vscode-extention:                       *)
(*   - NativeSSHConnection (src/src/nativeSSHConnection.ts): one session   *)
(*     object used by several asynchronous callers.  JavaScript runs each  *)
(*     piece of code between two awaits without interruption, so every     *)
(*     action below is one such piece.                                     *)
(*   - installCodeServer / verifyRemoteArchiveSize /                       *)
(*     parseServerInstallOutput (src/src/serverSetup.ts).                  *)
(*   - getOrDownloadServerOnRemote (src/src/serverDownload.ts).            *)
(*   - gatherIdentityFiles, downloadServer and tryDownloadServer           *)
(*     (src/src/native/ssh.ts), and the bash install script.               *)
(* The parts own disjoint variables; each specification moves the          *)
(* variables of one part and leaves the others' at their idle values.      *)
(***************************************************************************)
EXTENDS Integers, Sequences, FiniteSets, TLC

\* ------------------------------------------------------------------ bounds
NumCallers == 2     \* concurrent callers of one NativeSSHConnection
MaxCalls == 3       \* calls made on the session in one behaviour
MaxArchiveSize == 10 \* bytes of the largest server archive
MaxLines == 5       \* lines of the install script's stdout
MaxFields == 3      \* key==value== lines of one result block
MaxFiles == 2       \* paths in the identityFiles argument
MaxAgent == 2       \* identities the agent lists
MaxRequests == 6    \* https.get calls that are counted
NumRuns == 2        \* runs of the install script on one remote host
NumResolvers == 2   \* overlapping calls of tryDownloadServer for one url

Callers == 1..NumCallers

\* =========================================================================
\*                   PART 1: NativeSSHConnection
\* =========================================================================
VARIABLES
    sessionId,    \* this.sessionId: a transport handle, or Null
    tunnels,      \* this.tunnels: name -> localPort
    pc,           \* per caller: where its current call stands
    op,           \* per caller: the call it made, [kind, cfg]
    arg,          \* per caller: the handle it passed to the pending transport call
    result,       \* per caller: what its last call returned or threw
    ncalls,       \* calls made so far
    issued,       \* handles the transport has returned so far
    disconnected, \* handles NativeSSH.disconnect was invoked on
    forwards,     \* forwards the transport opened: [id, handle, lport, raddr, rport]
    failed,       \* history: a handshake has failed on this session
    fwdBy,        \* history, per caller: forwardPort invocations of its current call
    seqAdd,       \* history: the addTunnel that just returned, nothing having run since
    prior         \* history, per caller: seqAdd as its current addTunnel call found it

sessVars == <<sessionId, tunnels, pc, op, arg, result, ncalls, issued, disconnected,
              forwards, failed, fwdBy, seqAdd, prior>>

VARIABLES
    ipc,              \* installCodeServer: where the call stands
    localArchiveSize, \* the size of the local archive (line 72)
    remoteFile,       \* the archive file on the remote host: [exists, size]
    uploads,          \* conn.uploadFile calls of this install
    removes,          \* `rm -f` of the remote archive by this install
    sizesRead,        \* what getRemoteFileSize returned, in order
    stdout,           \* the stdout of the install script, a string
    envVariables,     \* the environment variable names the caller asked for
    outcome,          \* what installCodeServer returned or threw
    serverBinary,     \* whether the server binary is a file on the remote host
    serverInstalled,  \* the local serverInstalled (line 73)
    ran,              \* what the install script did on the remote host, in order
    scriptEnv,        \* history: what the remote host answered to the script, if it ran
    installedBefore   \* history: an earlier install on this host returned a result

instVars == <<ipc, localArchiveSize, remoteFile, uploads, removes, sizesRead, stdout,
              envVariables, outcome, serverBinary, serverInstalled, ran, scriptEnv,
              installedBefore>>

VARIABLES
    rpc,          \* getOrDownloadServerOnRemote: where the call stands
    arch,         \* systemInfo.arch
    localDist,    \* remote.SSH.localServerDistPath: [configured, archs with a file]
    remoteCache,  \* the file at the remote cache path: [exists, size]
    rlog,         \* what the call did on the connection, in order
    rresult,      \* what the call returned or threw
    unameOut,     \* what `uname -m` printed for the call
    serverVersion, \* remote.SSH.serverVersion as configured for the call
    cacheOf       \* the version and arch of the archive in the file at the cache path

resVars == <<rpc, arch, localDist, remoteCache, rlog, rresult, unameOut, serverVersion,
             cacheOf>>

VARIABLES
    gpc,            \* gatherIdentityFiles: where the call stands
    rawFiles,       \* the identityFiles argument, a list of paths
    disk,           \* what is at each path: nothing, an unreadable file, a file
    agent,          \* sshAgentSock and what the agent answers: [sock, answer]
    identitiesOnly, \* the identitiesOnly argument
    identityFiles,  \* the local identityFiles after line 41-44
    settled,        \* per index: the settled result of the read, or Pending
    gresult         \* what gatherIdentityFiles returned or threw

gathVars == <<gpc, rawFiles, disk, agent, identitiesOnly, identityFiles, settled, gresult>>

VARIABLES
    dpc,        \* downloadServer: where the call stands
    durl,       \* the url of the request in flight
    dfile,      \* the file at destPath: "absent", "empty" or "complete"
    drequests,  \* history: https.get calls made, counted up to MaxRequests
    dresult,    \* how the promise of the first call settled
    tryCall,    \* per call of tryDownloadServer: where it stands, what it returned
    cacheFile   \* the file at cachedServerPath: "absent", "partial" or "complete"

downVars == <<dpc, durl, dfile, drequests, dresult, tryCall, cacheFile>>

VARIABLES
    run,        \* per run of the install script: where it stands and its shell variables
    procs,      \* the server processes of the remote host, by pid
    pidFile,    \* $SERVER_PIDFILE: the pid it holds, or NoPid when there is no file
    tokenFile,  \* $SERVER_TOKENFILE: [exists, content, mode]
    logFile     \* $SERVER_LOGFILE: [exists, owner, port]

scrVars == <<run, procs, pidFile, tokenFile, logFile>>

vars == <<sessVars, instVars, resVars, gathVars, downVars, scrVars>>

\* A step of one part leaves the other parts alone.
SessionOnly == UNCHANGED <<instVars, resVars, gathVars, downVars, scrVars>>
InstallOnly == UNCHANGED <<sessVars, resVars, gathVars, downVars, scrVars>>
ResolveOnly == UNCHANGED <<sessVars, instVars, gathVars, downVars, scrVars>>
GatherOnly == UNCHANGED <<sessVars, instVars, resVars, downVars, scrVars>>
DownloadOnly == UNCHANGED <<sessVars, instVars, resVars, gathVars, scrVars, tryCall, cacheFile>>
TryDownloadOnly ==
    UNCHANGED <<sessVars, instVars, resVars, gathVars, scrVars, dpc, durl, dfile, drequests,
                dresult>>
ScriptOnly == UNCHANGED <<sessVars, instVars, resVars, gathVars, downVars>>

\* `sessionId: number | null = null`; the transport's handles are numbers >= 1 here.
Null == 0

EmptyMap == [n \in {} |-> 0]

Has(cfg, f) == f \in DOMAIN cfg

\* JavaScript truthiness of an optional string, number or boolean field.
TruthyStr(cfg, f) == Has(cfg, f) /\ cfg[f] # ""
TruthyNum(cfg, f) == Has(cfg, f) /\ cfg[f] # 0
TruthyBool(cfg, f) == Has(cfg, f) /\ cfg[f]

\* `${x}` of an optional string or number field: "undefined" when it is absent.
TemplateStr(cfg, f) == IF Has(cfg, f) THEN cfg[f] ELSE "undefined"
TemplateNum(cfg, f) == IF Has(cfg, f) THEN ToString(cfg[f]) ELSE "undefined"

\* const name = config.name || `${config.remoteAddr}:${config.remotePort}`;
TunnelName(cfg) ==
    IF TruthyStr(cfg, "name") THEN cfg.name
    ELSE TemplateStr(cfg, "remoteAddr") \o ":" \o TemplateNum(cfg, "remotePort")

\* config.localPort || 0, config.remoteAddr || '127.0.0.1', config.remotePort || 0
ForwardArgs(cfg) ==
    [lport |-> IF TruthyNum(cfg, "localPort") THEN cfg.localPort ELSE 0,
     raddr |-> IF TruthyStr(cfg, "remoteAddr") THEN cfg.remoteAddr ELSE "127.0.0.1",
     rport |-> IF TruthyNum(cfg, "remotePort") THEN cfg.remotePort ELSE 0]

\* The SSHTunnelConfig values callers pass to addTunnel: a forward named by
\* default with an ephemeral local port, a SOCKS request whose explicit name is
\* that default name, and a forward with another name and a fixed local port.
TunnelConfigs ==
    { [remoteAddr |-> "127.0.0.1", remotePort |-> 22, localPort |-> 0],
      [name |-> "127.0.0.1:22", socks |-> TRUE],
      [name |-> "web", remoteAddr |-> "10.0.0.1", remotePort |-> 80, localPort |-> 8080] }

\* The names callers pass to closeTunnel; "" stands for closeTunnel() without a name.
CloseNames == {"", "web"}

NoCfg == [n \in {} |-> 0]

\* What a call returned (ok) or threw (err).
NoResult == [ok |-> FALSE, err |-> "", port |-> 0]
Returned(p) == [ok |-> TRUE, err |-> "", port |-> p]
Threw(e) == [ok |-> FALSE, err |-> e, port |-> 0]

TransportError == "transport error"
NotConnected == "Not connected"
SocksError == "SOCKS tunnels not supported in native SSH connection"

NoSeq == [set |-> FALSE, name |-> "", port |-> 0, fwd |-> 0, reported |-> 0]

InitSession ==
    /\ sessionId = Null
    /\ tunnels = EmptyMap
    /\ pc = [c \in Callers |-> "idle"]
    /\ op = [c \in Callers |-> [kind |-> "none", cfg |-> NoCfg]]
    /\ arg = [c \in Callers |-> Null]
    /\ result = [c \in Callers |-> NoResult]
    /\ ncalls = 0
    /\ issued = 0
    /\ disconnected = {}
    /\ forwards = {}
    /\ failed = FALSE
    /\ fwdBy = [c \in Callers |-> 0]
    /\ seqAdd = NoSeq
    /\ prior = [c \in Callers |-> NoSeq]

NoOp == [kind |-> "none", cfg |-> NoCfg]

\* A caller may call when its previous call has settled.  The callers that have
\* no call in flight are interchangeable: the one with the least number calls.
CanCall(c) ==
    /\ pc[c] \in {"idle", "done"}
    /\ ncalls < MaxCalls
    /\ \A d \in Callers : d < c => pc[d] \notin {"idle", "done"}

\* The callers' side of a step of caller c, which is then at `where` in the call
\* `o` with result `r`.  What another caller's settled call returned is visible
\* in the state that follows its last step only: that caller is idle afterwards.
Caller(c, where, o, r) ==
    /\ pc' = [d \in Callers |->
                 IF d = c THEN where ELSE IF pc[d] = "done" THEN "idle" ELSE pc[d]]
    /\ op' = [d \in Callers |->
                 IF d = c THEN o ELSE IF pc[d] = "done" THEN NoOp ELSE op[d]]
    /\ result' = [d \in Callers |-> IF d = c THEN r ELSE NoResult]

\* The call `o` of caller c settles with result r.
Finish(c, o, r) ==
    /\ Caller(c, "done", o, r)
    /\ arg' = [arg EXCEPT ![c] = Null]
    /\ fwdBy' = [fwdBy EXCEPT ![c] = 0]

\* The call `o` of caller c waits at `where`.
Goto(c, o, where) ==
    /\ Caller(c, where, o, NoResult)
    /\ UNCHANGED <<arg, fwdBy>>

\* The call `o` of caller c waits at `where` for a transport call made on handle h.
Await(c, o, where, h) ==
    /\ Caller(c, where, o, NoResult)
    /\ arg' = [arg EXCEPT ![c] = h]

\* History bookkeeping of a step of caller c: every other caller's record of
\* "nothing ran since the last addTunnel returned" is dropped.
Step(c, mine, seq) ==
    /\ prior' = [d \in Callers |-> IF d = c THEN mine ELSE NoSeq]
    /\ seqAdd' = seq

\* A faulty connect(): the check of line 35 is missing.
ConnectEntry_NoGuard(c, o, next) == Goto(c, o, "handshake")

\* connect(), lines 35-47: the code up to the await of NativeSSH.connect.  When
\* the session already has a handle connect() returns at line 36 and the caller
\* goes on at `next`; otherwise one handshake is started.
ConnectEntry(c, o, next) ==
    IF sessionId # Null
    THEN IF next = "done" THEN Finish(c, o, Returned(0)) ELSE Goto(c, o, next)
    ELSE Goto(c, o, "handshake")

\* connect() called by a caller.
CallConnect(c) ==
    /\ CanCall(c)
    /\ ncalls' = ncalls + 1
    /\ ConnectEntry(c, [kind |-> "connect", cfg |-> NoCfg], "done")
    /\ Step(c, NoSeq, NoSeq)
    /\ UNCHANGED <<sessionId, tunnels, issued, disconnected, forwards, failed>>
    /\ SessionOnly

\* exec(cmd), line 54: `await this.connect()`.
CallExec(c) ==
    /\ CanCall(c)
    /\ ncalls' = ncalls + 1
    /\ ConnectEntry(c, [kind |-> "exec", cfg |-> NoCfg], "after_connect")
    /\ Step(c, NoSeq, NoSeq)
    /\ UNCHANGED <<sessionId, tunnels, issued, disconnected, forwards, failed>>
    /\ SessionOnly

\* uploadFile(localPath, remotePath), line 113: `await this.connect()`.
CallUploadFile(c) ==
    /\ CanCall(c)
    /\ ncalls' = ncalls + 1
    /\ ConnectEntry(c, [kind |-> "uploadFile", cfg |-> NoCfg], "after_connect")
    /\ Step(c, NoSeq, NoSeq)
    /\ UNCHANGED <<sessionId, tunnels, issued, disconnected, forwards, failed>>
    /\ SessionOnly

\* addTunnel(config), line 65: `await this.connect()`.
CallAddTunnel(c) ==
    /\ SessionOnly
    /\ \E cfg \in TunnelConfigs :
        /\ CanCall(c)
        /\ ncalls' = ncalls + 1
        /\ ConnectEntry(c, [kind |-> "addTunnel", cfg |-> cfg], "after_connect")
        /\ Step(c,
                IF seqAdd.set /\ seqAdd.name = TunnelName(cfg) /\ sessionId # Null
                THEN seqAdd ELSE NoSeq,
                NoSeq)
        /\ UNCHANGED <<sessionId, tunnels, issued, disconnected, forwards, failed>>

\* The handshake succeeds, lines 41-50: the transport returns a handle that it
\* never returned before, connect() stores it and returns.
HandshakeResolve(c) ==
    /\ pc[c] = "handshake"
    /\ issued' = issued + 1
    /\ sessionId' = issued + 1
    /\ IF op[c].kind = "connect"
       THEN Finish(c, op[c], Returned(0))
       ELSE Goto(c, op[c], "after_connect")
    /\ Step(c, prior[c], NoSeq)
    /\ UNCHANGED <<tunnels, ncalls, disconnected, forwards, failed>>
    /\ SessionOnly

\* The handshake fails: the rejection of NativeSSH.connect leaves connect() at
\* line 41 and, through `await this.connect()`, the calling exec / addTunnel /
\* uploadFile.  this.sessionId is not assigned.
HandshakeReject(c) ==
    /\ pc[c] = "handshake"
    /\ failed' = TRUE
    /\ Finish(c, op[c], Threw(TransportError))
    /\ Step(c, NoSeq, NoSeq)
    /\ UNCHANGED <<sessionId, tunnels, ncalls, issued, disconnected, forwards>>
    /\ SessionOnly

\* exec and uploadFile after `await this.connect()`, lines 56-60 and 115-119:
\* the null check, then the transport call on the current handle.
TransportCallStart(c) ==
    /\ pc[c] = "after_connect"
    /\ op[c].kind \in {"exec", "uploadFile"}
    /\ IF sessionId = Null
       THEN Finish(c, op[c], Threw(NotConnected))
       ELSE Await(c, op[c], "transport_wait", sessionId) /\ UNCHANGED fwdBy
    /\ Step(c, NoSeq, NoSeq)
    /\ UNCHANGED <<sessionId, tunnels, ncalls, issued, disconnected, forwards, failed>>
    /\ SessionOnly

\* NativeSSH.exec / NativeSSH.uploadFile returns, lines 60-61 and 119.
TransportCallResolve(c) ==
    /\ pc[c] = "transport_wait"
    /\ Finish(c, op[c], Returned(0))
    /\ Step(c, NoSeq, NoSeq)
    /\ UNCHANGED <<sessionId, tunnels, ncalls, issued, disconnected, forwards, failed>>
    /\ SessionOnly

\* NativeSSH.exec / NativeSSH.uploadFile throws: the error leaves the call.
TransportCallReject(c) ==
    /\ pc[c] = "transport_wait"
    /\ Finish(c, op[c], Threw(TransportError))
    /\ Step(c, NoSeq, NoSeq)
    /\ UNCHANGED <<sessionId, tunnels, ncalls, issued, disconnected, forwards, failed>>
    /\ SessionOnly

\* The local port NativeSSH.forwardPort reports: the requested one, or, for a
\* request of port 0, an ephemeral port no earlier forward was given.
TransportForwardPort(lport, n) == IF lport # 0 THEN lport ELSE 49152 + n

\* What addTunnel returns at lines 75 and 92: { ...config, localPort }.
TunnelResult(cfg, localPort) == Returned(localPort)

\* A faulty lookup: no name is ever found in the table.
ExistingTunnel_Never(name) == name \in DOMAIN EmptyMap

\* this.tunnels.has(name), line 73.
ExistingTunnel(name) == name \in DOMAIN tunnels

\* addTunnel after `await this.connect()`, lines 67-87: the null check, the
\* lookup of the name, the SOCKS check, then NativeSSH.forwardPort is called.
AddTunnelResume(c) ==
    /\ pc[c] = "after_connect"
    /\ op[c].kind = "addTunnel"
    /\ LET cfg == op[c].cfg
           name == TunnelName(cfg)
       IN  IF sessionId = Null
           THEN /\ Finish(c, op[c], Threw(NotConnected))
                /\ Step(c, NoSeq, NoSeq)
           ELSE IF ExistingTunnel(name)
           THEN /\ Finish(c, op[c], TunnelResult(cfg, tunnels[name]))
                /\ Step(c, prior[c],
                        [set |-> TRUE, name |-> name, port |-> tunnels[name],
                         fwd |-> fwdBy[c], reported |-> 0])
           ELSE IF TruthyBool(cfg, "socks")
           THEN /\ Finish(c, op[c], Threw(SocksError))
                /\ Step(c, NoSeq, NoSeq)
           ELSE /\ Await(c, op[c], "forward_wait", sessionId)
                /\ fwdBy' = [fwdBy EXCEPT ![c] = fwdBy[c] + 1]
                /\ Step(c, prior[c], NoSeq)
    /\ UNCHANGED <<sessionId, tunnels, ncalls, issued, disconnected, forwards, failed>>
    /\ SessionOnly

\* NativeSSH.forwardPort returns, lines 82-92: the reported port is stored
\* under the name and returned.
ForwardResolve(c) ==
    /\ pc[c] = "forward_wait"
    /\ LET cfg == op[c].cfg
           name == TunnelName(cfg)
           a == ForwardArgs(cfg)
           localPort == TransportForwardPort(a.lport, Cardinality(forwards))
       IN  /\ forwards' = forwards \cup
                 {[id |-> Cardinality(forwards) + 1, handle |-> arg[c], lport |-> localPort,
                   raddr |-> a.raddr, rport |-> a.rport]}
           /\ tunnels' = [n \in DOMAIN tunnels \cup {name} |->
                             IF n = name THEN localPort ELSE tunnels[n]]
           /\ Finish(c, op[c], TunnelResult(cfg, localPort))
           /\ Step(c, prior[c],
                   [set |-> TRUE, name |-> name, port |-> TunnelResult(cfg, localPort).port,
                    fwd |-> fwdBy[c], reported |-> localPort])
    /\ UNCHANGED <<sessionId, ncalls, issued, disconnected, failed>>
    /\ SessionOnly

\* A faulty addTunnel that drops the handle when the forward fails.
ForwardReject_DropsHandle(c) ==
    /\ pc[c] = "forward_wait"
    /\ sessionId' = Null
    /\ Finish(c, op[c], Threw(TransportError))
    /\ Step(c, NoSeq, NoSeq)
    /\ UNCHANGED <<tunnels, ncalls, issued, disconnected, forwards, failed>>
    /\ SessionOnly

\* NativeSSH.forwardPort throws at line 82: nothing is stored.
ForwardReject(c) ==
    /\ pc[c] = "forward_wait"
    /\ Finish(c, op[c], Threw(TransportError))
    /\ Step(c, NoSeq, NoSeq)
    /\ UNCHANGED <<sessionId, tunnels, ncalls, issued, disconnected, forwards, failed>>
    /\ SessionOnly

\* closeTunnel(name?), lines 95-102: synchronous, no transport call.
CallCloseTunnel(c) ==
    /\ SessionOnly
    /\ \E name \in CloseNames :
        /\ CanCall(c)
        /\ ncalls' = ncalls + 1
        /\ tunnels' = IF name # ""
                      THEN [n \in DOMAIN tunnels \ {name} |-> tunnels[n]]
                      ELSE EmptyMap
        /\ Finish(c, [kind |-> "closeTunnel",
                      cfg |-> IF name = "" THEN NoCfg ELSE [name |-> name]], Returned(0))
        /\ Step(c, NoSeq, NoSeq)
        /\ UNCHANGED <<sessionId, issued, disconnected, forwards, failed>>

\* close(), lines 105-106: with a handle, NativeSSH.disconnect is called on it;
\* without one, close() returns at once.
CallClose(c) ==
    /\ CanCall(c)
    /\ ncalls' = ncalls + 1
    /\ IF sessionId # Null
       THEN /\ Await(c, [kind |-> "close", cfg |-> NoCfg], "disconnect_wait", sessionId)
            /\ disconnected' = disconnected \cup {sessionId}
            /\ UNCHANGED fwdBy
       ELSE /\ Finish(c, [kind |-> "close", cfg |-> NoCfg], Returned(0))
            /\ UNCHANGED disconnected
    /\ Step(c, NoSeq, NoSeq)
    /\ UNCHANGED <<sessionId, tunnels, issued, forwards, failed>>
    /\ SessionOnly

\* A faulty close(): line 108, this.tunnels.clear(), is missing.
DisconnectResolve_KeepsTunnels(c) ==
    /\ pc[c] = "disconnect_wait"
    /\ sessionId' = Null
    /\ Finish(c, op[c], Returned(0))
    /\ Step(c, NoSeq, NoSeq)
    /\ UNCHANGED <<tunnels, ncalls, issued, disconnected, forwards, failed>>
    /\ SessionOnly

\* NativeSSH.disconnect returns, lines 107-108.
DisconnectResolve(c) ==
    /\ pc[c] = "disconnect_wait"
    /\ sessionId' = Null
    /\ tunnels' = EmptyMap
    /\ Finish(c, op[c], Returned(0))
    /\ Step(c, NoSeq, NoSeq)
    /\ UNCHANGED <<ncalls, issued, disconnected, forwards, failed>>
    /\ SessionOnly

\* NativeSSH.disconnect throws at line 106: lines 107-108 do not run.
DisconnectReject(c) ==
    /\ pc[c] = "disconnect_wait"
    /\ Finish(c, op[c], Threw(TransportError))
    /\ Step(c, NoSeq, NoSeq)
    /\ UNCHANGED <<sessionId, tunnels, ncalls, issued, disconnected, forwards, failed>>
    /\ SessionOnly

\* =========================================================================
\*        PART 2: strings, and the parsing of the install script's output
\* =========================================================================
\* A string is a sequence of symbols.  A symbol is one character, or a run of
\* characters that no operation below looks into: "id" is the 24 hex digits
\* of scriptId, "exitCode" the nine letters of that key.

Min(S) == CHOOSE x \in S : \A y \in S : x <= y
Max(S) == CHOOSE x \in S : \A y \in S : x >= y

\* str.indexOf(pat, from), counting from 0; -1 when pat does not occur.
IndexOf(str, pat, from) ==
    LET at == {i \in from..(Len(str) - Len(pat)) : SubSeq(str, i + 1, i + Len(pat)) = pat}
    IN  IF at = {} THEN -1 ELSE Min(at)

\* str.substring(a, b) for a <= b.
Substring(str, a, b) == SubSeq(str, a + 1, b)

\* str.split(sep) for a non-empty separator string.
RECURSIVE Split(_, _)
Split(str, sep) ==
    LET i == IndexOf(str, sep, 0)
    IN  IF i < 0 THEN <<str>>
        ELSE <<Substring(str, 0, i)>> \o Split(Substring(str, i + Len(sep), Len(str)), sep)

\* str.split(/\r?\n/): a carriage return right before a line feed belongs to
\* the separator.
SplitLines(str) ==
    LET pieces == Split(str, <<"\n">>)
    IN  [i \in 1..Len(pieces) |->
            LET q == pieces[i]
            IN  IF i < Len(pieces) /\ Len(q) > 0 /\ q[Len(q)] = "\r"
                THEN SubSeq(q, 1, Len(q) - 1) ELSE q]

Digits == {"0", "1", "2", "3", "4", "5", "6", "7", "8", "9"}
DigitVal(d) ==
    CASE d = "0" -> 0 [] d = "1" -> 1 [] d = "2" -> 2 [] d = "3" -> 3 [] d = "4" -> 4
      [] d = "5" -> 5 [] d = "6" -> 6 [] d = "7" -> 7 [] d = "8" -> 8 [] d = "9" -> 9
WhiteSpace == {" ", "\n", "\r", "\t"}

\* JavaScript values: undefined, a string, a number, NaN.
Undefined == [t |-> "undefined", n |-> 0, str |-> <<>>]
Str(s) == [t |-> "string", n |-> 0, str |-> s]
Num(n) == [t |-> "number", n |-> n, str |-> <<>>]
NaN == [t |-> "NaN", n |-> 0, str |-> <<>>]

\* str.trim()
RECURSIVE Trim(_)
Trim(str) ==
    IF str = <<>> THEN str
    ELSE IF str[1] \in WhiteSpace THEN Trim(Tail(str))
    ELSE IF str[Len(str)] \in WhiteSpace THEN Trim(SubSeq(str, 1, Len(str) - 1))
    ELSE str

\* The value of the longest prefix of digits of str, after the digits in acc.
RECURSIVE DigitsValue(_, _)
DigitsValue(str, acc) ==
    IF str = <<>> \/ str[1] \notin Digits THEN acc
    ELSE DigitsValue(Tail(str), 10 * acc + DigitVal(str[1]))

\* parseInt(v, 10): undefined and strings that do not start (after white space
\* and a sign) with a digit give NaN; what follows the digits is ignored.
ParseInt(v) ==
    IF v.t # "string" THEN NaN
    ELSE LET t == Trim(v.str)
             neg == t # <<>> /\ t[1] = "-"
             u == IF t # <<>> /\ t[1] \in {"-", "+"} THEN Tail(t) ELSE t
         IN  IF u = <<>> \/ u[1] \notin Digits THEN NaN
             ELSE Num(IF neg THEN 0 - DigitsValue(u, 0) ELSE DigitsValue(u, 0))

\* str.match(/^\d+$/)
AllDigits(str) == str # <<>> /\ \A i \in 1..Len(str) : str[i] \in Digits

\* `${scriptId}: start` and `${scriptId}: end`, lines 136-137.
StartMarker == <<"id", ":", " ", "start">>
EndMarker == <<"id", ":", " ", "end">>

\* const [key, value] = line.split('=='), line 154.
LineKey(line) == Split(line, <<"=", "=">>)[1]
LineValue(line) ==
    LET parts == Split(line, <<"=", "=">>)
    IN  IF Len(parts) >= 2 THEN Str(parts[2]) ELSE Undefined

\* The loop of lines 151-156: resultMap[key] = value for each line in turn, so
\* the last line with a key decides its value.
ResultMapOf(lines) ==
    [k \in {LineKey(lines[i]) : i \in 1..Len(lines)} |->
        LineValue(lines[Max({i \in 1..Len(lines) : LineKey(lines[i]) = k})])]

NotFound == [found |-> FALSE, map |-> EmptyMap]

\* A faulty parser: the result is cut from the top of the output, not from
\* the end of the start marker.
parseServerInstallOutput_FromTop(str) ==
    LET startResultIdx == IndexOf(str, StartMarker, 0)
        endResultIdx == IndexOf(str, EndMarker, startResultIdx + Len(StartMarker))
    IN  IF startResultIdx < 0 THEN NotFound
        ELSE IF endResultIdx < 0 THEN NotFound
        ELSE [found |-> TRUE,
              map |-> ResultMapOf(SplitLines(Substring(str, 0, endResultIdx)))]

\* parseServerInstallOutput(str, scriptId), lines 135-159.
parseServerInstallOutput(str) ==
    LET startResultIdx == IndexOf(str, StartMarker, 0)
        endResultIdx == IndexOf(str, EndMarker, startResultIdx + Len(StartMarker))
    IN  IF startResultIdx < 0 THEN NotFound
        ELSE IF endResultIdx < 0 THEN NotFound
        ELSE [found |-> TRUE,
              map |-> ResultMapOf(SplitLines(
                          Substring(str, startResultIdx + Len(StartMarker), endResultIdx)))]

\* resultMap.key: undefined when the key is not in the map.
Field(map, key) == IF <<key>> \in DOMAIN map THEN map[<<key>>] ELSE Undefined

ParseError == "Failed parsing install script output"
ExitStatusError == "Server install script returned non-zero exit status"

FixedFields == {"connectionToken", "logFile", "osReleaseId", "arch", "platform", "tmpDir"}

\* An error thrown by installCodeServer: its class, its message and the values
\* the message quotes.
Failure(type, msg, quoted) ==
    [status |-> type, message |-> msg, quoted |-> quoted, value |-> EmptyMap]

\* A faulty filter: every key of the map passes.
RemoteEnvVars_Unfiltered(resultMap, env) == DOMAIN resultMap

\* The keys of remoteEnvVars, line 120: the keys of the map that envVariables
\* includes.
RemoteEnvVars(resultMap, env) == {key \in DOMAIN resultMap : key \in env}

\* installCodeServer, lines 107-132: the parsed map is classified and turned
\* into the ServerInstallResult, an object from keys to values: exitCode, then
\* listeningOn (a number when it is all digits, else the string itself), the six
\* other fixed fields, and last the requested environment variables found in
\* the map, which replace a fixed field of the same name (the object spread).
Classify(parsed, env) ==
    LET resultMap == parsed.map
        exitCode == ParseInt(Field(resultMap, "exitCode"))
        raw == Field(resultMap, "listeningOn")
        remoteEnvVars == RemoteEnvVars(resultMap, env)
        fixed(k) == IF k = <<"exitCode">> THEN exitCode
                    ELSE IF k = <<"listeningOn">>
                    THEN (IF AllDigits(raw.str) THEN ParseInt(raw) ELSE raw)
                    ELSE Field(resultMap, k[1])
    IN  IF ~parsed.found THEN Failure("ServerInstallError", ParseError, <<>>)
        ELSE IF exitCode # Num(0) THEN Failure("ServerInstallError", ExitStatusError, <<>>)
        ELSE IF raw.t # "string"
        THEN Failure("TypeError", "Cannot read properties of undefined (reading 'match')", <<>>)
        ELSE [status |-> "ok", message |-> "", quoted |-> <<>>,
              value |-> [k \in {<<f>> : f \in FixedFields \cup {"exitCode", "listeningOn"}}
                                 \cup remoteEnvVars
                            |-> IF k \in remoteEnvVars THEN resultMap[k] ELSE fixed(k)]]

\* installCodeServer, lines 106-132.
InstallResultOf(out, env) == Classify(parseServerInstallOutput(out), env)

\* =========================================================================
\*                   PART 3: installCodeServer
\* =========================================================================
NotRun == Failure("none", "", <<>>)

NoFile == [exists |-> FALSE, size |-> 0]
File(n) == [exists |-> TRUE, size |-> n]

ArchiveSizes == {0, MaxArchiveSize - 1, MaxArchiveSize}

\* The decimal digits of a natural number, as `wc -c` prints it.
RECURSIVE ToDigits(_)
ToDigits(n) ==
    LET d == <<"0", "1", "2", "3", "4", "5", "6", "7", "8", "9">>[(n % 10) + 1]
    IN  IF n < 10 THEN <<d>> ELSE ToDigits(n \div 10) \o <<d>>

\* The stdout of `if [ -f path ]; then wc -c < path; fi`, line 185.
WcOutput(file) == IF file.exists THEN ToDigits(file.size) \o <<"\n">> ELSE <<>>

\* getRemoteFileSize, lines 184-188: a number, or undefined when the output
\* is not one.
getRemoteFileSize(file) ==
    LET size == ParseInt(Str(Trim(WcOutput(file))))
    IN  IF size.t = "number" THEN size ELSE Undefined

\* What conn.uploadFile may leave at the remote path when it returns: the whole
\* archive, a truncated one, or nothing.
UploadResults(local) == {NoFile} \cup {File(n) : n \in {m \in ArchiveSizes : m <= local}}

TransportFailure == Failure("Error", TransportError, <<>>)

Fail(o) ==
    /\ ipc' = "done"
    /\ outcome' = o

\* A faulty remoteFileExists: the answer is compared with 'exists'.
remoteFileExists_WrongWord(isFile) ==
    Trim(IF isFile THEN <<"yes", "\n">> ELSE <<>>) = <<"exists">>

\* remoteFileExists, lines 179-182: `if [ -f path ]; then echo yes; fi`, and the
\* comparison of the trimmed stdout with 'yes'.
remoteFileExists(isFile) ==
    Trim(IF isFile THEN <<"yes", "\n">> ELSE <<>>) = <<"yes">>

\* installCodeServer, lines 48-73: the checks of the archive path and of the
\* platform, the remote home directory, the local size and the test for an
\* installed server.
InstallStart ==
    /\ ipc = "start"
    /\ \E remoteAnswers \in BOOLEAN, archivePathSet \in BOOLEAN, localFound \in BOOLEAN,
          detectedPlatform \in {"linux", "unknown"}, homeDir \in {"", "/home/user"},
          size \in ArchiveSizes :
          IF ~archivePathSet
          THEN /\ Fail(Failure("ServerInstallError",
                       "remote.SSH.sidecarArchivePath must be set for local sidecar installs",
                       <<>>))
               /\ UNCHANGED <<localArchiveSize, serverInstalled>>
          ELSE IF ~localFound
          THEN /\ Fail(Failure("ServerInstallError", "Sidecar archive not found", <<>>))
               /\ UNCHANGED <<localArchiveSize, serverInstalled>>
          ELSE IF detectedPlatform # "linux"
          THEN /\ Fail(Failure("ServerInstallError",
                               "Only Linux remotes are supported for the MVP", <<>>))
               /\ UNCHANGED <<localArchiveSize, serverInstalled>>
          ELSE IF homeDir = ""
          THEN /\ Fail(Failure("ServerInstallError",
                               "Unable to resolve remote home directory", <<>>))
               /\ UNCHANGED <<localArchiveSize, serverInstalled>>
          ELSE IF ~remoteAnswers
          THEN /\ Fail(TransportFailure)
               /\ UNCHANGED <<localArchiveSize, serverInstalled>>
          ELSE /\ localArchiveSize' = size
               /\ serverInstalled' = remoteFileExists(serverBinary)
               /\ ipc' = IF serverInstalled' THEN "script" ELSE "upload"
               /\ UNCHANGED outcome
    /\ UNCHANGED <<remoteFile, uploads, removes, sizesRead, stdout, envVariables,
                   serverBinary, ran, scriptEnv, installedBefore>>
    /\ InstallOnly

\* `rm -f` of the remote archive, then conn.uploadFile, lines 77-78 and 206-207.
RemoveAndUpload(next) ==
    \/ /\ \E f \in UploadResults(localArchiveSize) : remoteFile' = f
       /\ removes' = removes + 1
       /\ uploads' = uploads + 1
       /\ ipc' = next
       /\ UNCHANGED outcome
    \/ /\ Fail(TransportFailure)
       /\ UNCHANGED <<remoteFile, removes, uploads>>

\* installCodeServer, lines 74-78: the server is not installed, the archive is
\* uploaded.
InstallUpload ==
    /\ ipc = "upload"
    /\ RemoveAndUpload("verify")
    /\ UNCHANGED <<localArchiveSize, sizesRead, stdout, envVariables>>
    /\ UNCHANGED <<serverBinary, serverInstalled, ran, scriptEnv, installedBefore>>
    /\ InstallOnly

\* verifyRemoteArchiveSize, lines 197-205: the first size check.
VerifyFirstSize ==
    /\ ipc = "verify"
    /\ \/ LET remoteSize == getRemoteFileSize(remoteFile)
          IN  /\ sizesRead' = Append(sizesRead, remoteSize)
              /\ ipc' = IF remoteSize = Num(localArchiveSize) THEN "script" ELSE "retry"
              /\ UNCHANGED outcome
       \/ /\ Fail(TransportFailure)
          /\ UNCHANGED sizesRead
    /\ UNCHANGED <<localArchiveSize, remoteFile, uploads, removes, stdout, envVariables>>
    /\ UNCHANGED <<serverBinary, serverInstalled, ran, scriptEnv, installedBefore>>
    /\ InstallOnly

\* verifyRemoteArchiveSize, lines 206-207: the retry of the upload.
VerifyRetryUpload ==
    /\ ipc = "retry"
    /\ RemoveAndUpload("recheck")
    /\ UNCHANGED <<localArchiveSize, sizesRead, stdout, envVariables>>
    /\ UNCHANGED <<serverBinary, serverInstalled, ran, scriptEnv, installedBefore>>
    /\ InstallOnly

\* A faulty verifyRemoteArchiveSize: the size read after the retry is not
\* compared with the local size.
VerifyRetrySize_Unchecked ==
    /\ ipc = "recheck"
    /\ \/ /\ sizesRead' = Append(sizesRead, getRemoteFileSize(remoteFile))
          /\ ipc' = "script"
          /\ UNCHANGED outcome
       \/ /\ Fail(TransportFailure)
          /\ UNCHANGED sizesRead
    /\ UNCHANGED <<localArchiveSize, remoteFile, uploads, removes, stdout, envVariables>>
    /\ UNCHANGED <<serverBinary, serverInstalled, ran, scriptEnv, installedBefore>>
    /\ InstallOnly

\* verifyRemoteArchiveSize, lines 209-215: the size check after the retry.
VerifyRetrySize ==
    /\ ipc = "recheck"
    /\ \/ LET retrySize == getRemoteFileSize(remoteFile)
          IN  /\ sizesRead' = Append(sizesRead, retrySize)
              /\ IF retrySize # Num(localArchiveSize)
                 THEN Fail(Failure("ServerInstallError", "Sidecar archive upload incomplete",
                                   <<Num(localArchiveSize),
                                     IF retrySize = Undefined
                                     THEN Str(<<"missing">>) ELSE retrySize>>))
                 ELSE ipc' = "script" /\ UNCHANGED outcome
       \/ /\ Fail(TransportFailure)
          /\ UNCHANGED sizesRead
    /\ UNCHANGED <<localArchiveSize, remoteFile, uploads, removes, stdout, envVariables>>
    /\ UNCHANGED <<serverBinary, serverInstalled, ran, scriptEnv, installedBefore>>
    /\ InstallOnly

\* Lines of the install script's stdout.
StartLine == StartMarker
EndLine == EndMarker
ExitCode0Line == <<"exitCode", "=", "=", "0", "=", "=">>
ExitCode1Line == <<"exitCode", "=", "=", "1", "=", "=">>
ListeningOnLine == <<"listeningOn", "=", "=", "4", "2", "=", "=">>
DiagnosticLine == <<"Server", " ", "script", " ", "already", " ", "installed">>
\* An exit code that starts with the digit 0 and goes on with a letter.
ExitCodeLetterLine == <<"exitCode", "=", "=", "0", "x", "=", "=">>
\* listeningOn for --socket-path (line 235): a path, one symbol here.
ListeningOnPathLine == <<"listeningOn", "=", "=", "/tmp/sock", "=", "=">>
\* The echo of an environment variable, line 262.
EnvLine == <<"PATH", "=", "=", "/bin", "=", "=">>

LineVocabulary ==
    {StartLine, EndLine, ExitCode0Line, ExitCode1Line, ListeningOnLine, DiagnosticLine}

\* The key==value== lines of a result block.
FieldLines ==
    {ExitCode0Line, ExitCode1Line, ExitCodeLetterLine, ListeningOnLine, ListeningOnPathLine,
     EnvLine}

\* The envVariables a caller passes: none, or the one the output may hold.
EnvRequests == {{}, {<<"PATH">>}}

\* The lines as `echo` prints them.
RECURSIVE Echo(_)
Echo(lines) == IF lines = <<>> THEN <<>> ELSE lines[1] \o <<"\n">> \o Echo(Tail(lines))

\* Every stdout of at most MaxLines lines.
Stdouts == {Echo(ls) : ls \in UNION {[1..n -> LineVocabulary] : n \in 0..MaxLines}}

\* Every block of at most MaxFields key==value== lines between the markers.
Blocks ==
    {<<StartLine>> \o fs \o <<EndLine>> :
        fs \in UNION {[1..n -> FieldLines] : n \in 0..MaxFields}}

\* The lines the script prints before and after the block.
Surroundings == {<<>>, <<DiagnosticLine>>}

\* Every stdout with one block, diagnostics before and after it.
BlockStdouts ==
    {Echo(pre \o b \o post) : pre \in Surroundings, b \in Blocks, post \in Surroundings}

\* What the install script of lines 252-265 and 267-402 prints: diagnostics,
\* then one block with exit code 0 and the listening port, or with exit code 1.
SuccessOutput == Echo(<<DiagnosticLine, StartLine, ExitCode0Line, ListeningOnLine, EndLine>>)
FailureOutput ==
    Echo(<<StartLine, ExitCode1Line, <<"listeningOn", "=", "=", "=", "=">>, EndLine>>)
ScriptOutputs == {SuccessOutput, FailureOutput}

\* What the remote host answers while the script runs: the kernel is Linux,
\* the machine architecture is known, tar succeeds, the archive holds a server
\* binary under the configured name, or else under one of the two other names
\* of lines 331-336, a server process is running already, the server log names
\* a port.
ScriptEnvs ==
    [linux : BOOLEAN, archOk : BOOLEAN, tarOk : BOOLEAN, unpacked : BOOLEAN,
     fallback : BOOLEAN, running : BOOLEAN, listening : BOOLEAN]

\* The install script, lines 267-402, run with the server binary and the archive
\* as given: the code it passes to print_install_results_and_exit, what is then
\* on the remote host, and what it did there.
ScriptRun(binary, archive, e) ==
    LET exit(code, bin, arc, did) ==
            [exitCode |-> code, binary |-> bin, archive |-> arc, ran |-> did]
        \* lines 349-402: the liveness check, the start of the server, the port
        live(bin, arc, did) ==
            LET did2 == IF e.running THEN did ELSE Append(did, "start-server")
            IN  IF e.listening THEN exit(0, bin, arc, did2) ELSE exit(1, bin, arc, did2)
    IN  IF ~e.linux THEN exit(1, binary, archive, <<>>)
        ELSE IF ~e.archOk THEN exit(1, binary, archive, <<>>)
        ELSE IF binary THEN live(binary, archive, <<>>)
        ELSE IF ~archive.exists THEN exit(1, binary, archive, <<>>)
        ELSE IF ~e.tarOk
        THEN exit(1, FALSE, archive, <<"find -exec rm -rf", "tar -xf">>)
        ELSE IF e.unpacked
        THEN live(TRUE, NoFile, <<"find -exec rm -rf", "tar -xf", "rm -f archive">>)
        \* lines 330-341: $SERVER_SCRIPT is not a file after the extraction; the
        \* script goes on with bin/openvscode-server or bin/code-server
        ELSE IF e.fallback
        THEN live(FALSE, NoFile, <<"find -exec rm -rf", "tar -xf", "rm -f archive">>)
        ELSE exit(1, FALSE, archive, <<"find -exec rm -rf", "tar -xf">>)

\* installCodeServer, lines 95-104: the install script runs on the remote host.
InstallRunScript ==
    /\ ipc = "script"
    /\ \/ \E e \in ScriptEnvs :
             LET r == ScriptRun(serverBinary, remoteFile, e)
             IN  /\ stdout' = IF r.exitCode = 0 THEN SuccessOutput ELSE FailureOutput
                 /\ serverBinary' = r.binary
                 /\ remoteFile' = r.archive
                 /\ ran' = r.ran
                 /\ scriptEnv' = <<e>>
                 /\ ipc' = "parse"
                 /\ UNCHANGED outcome
       \/ /\ Fail(TransportFailure)
          /\ UNCHANGED <<stdout, serverBinary, remoteFile, ran, scriptEnv>>
    /\ UNCHANGED <<localArchiveSize, uploads, removes, sizesRead, envVariables,
                   serverInstalled, installedBefore>>
    /\ InstallOnly

\* installCodeServer, lines 106-132: the output is parsed and classified.
InstallFinish ==
    /\ ipc = "parse"
    /\ ipc' = "done"
    /\ outcome' = InstallResultOf(stdout, envVariables)
    /\ UNCHANGED <<localArchiveSize, remoteFile, uploads, removes, sizesRead, stdout,
                   envVariables>>
    /\ UNCHANGED <<serverBinary, serverInstalled, ran, scriptEnv, installedBefore>>
    /\ InstallOnly

\* installCodeServer is called again for the same commit on the same remote
\* host, lines 39-48: the locals are new, the remote files are as the earlier
\* call left them.
InstallAgain ==
    /\ ipc = "done"
    /\ ipc' = "start"
    /\ installedBefore' = (installedBefore \/ outcome.status = "ok")
    /\ localArchiveSize' = 0
    /\ uploads' = 0
    /\ removes' = 0
    /\ sizesRead' = <<>>
    /\ stdout' = <<>>
    /\ outcome' = NotRun
    /\ serverInstalled' = FALSE
    /\ ran' = <<>>
    /\ scriptEnv' = <<>>
    /\ UNCHANGED <<remoteFile, envVariables, serverBinary>>
    /\ InstallOnly

InitInstall ==
    /\ ipc = "start"
    /\ localArchiveSize = 0
    /\ remoteFile \in {NoFile} \cup {File(n) : n \in ArchiveSizes}
    /\ uploads = 0
    /\ removes = 0
    /\ sizesRead = <<>>
    /\ stdout = <<>>
    /\ envVariables = {}
    /\ outcome = NotRun
    /\ serverBinary \in BOOLEAN
    /\ serverInstalled = FALSE
    /\ ran = <<>>
    /\ scriptEnv = <<>>
    /\ installedBefore = FALSE

\* installCodeServer at line 106, the script having printed any stdout.
InitParse ==
    /\ ipc = "parse"
    /\ localArchiveSize = 0
    /\ remoteFile = NoFile
    /\ uploads = 0
    /\ removes = 0
    /\ sizesRead = <<>>
    /\ stdout \in Stdouts
    /\ envVariables = {}
    /\ outcome = NotRun
    /\ serverBinary = FALSE
    /\ serverInstalled = FALSE
    /\ ran = <<>>
    /\ scriptEnv = <<>>
    /\ installedBefore = FALSE

\* installCodeServer at line 106, the script having printed one block, for
\* every request of environment variables.
InitBlock ==
    /\ ipc = "parse"
    /\ localArchiveSize = 0
    /\ remoteFile = NoFile
    /\ uploads = 0
    /\ removes = 0
    /\ sizesRead = <<>>
    /\ stdout \in BlockStdouts
    /\ envVariables \in EnvRequests
    /\ outcome = NotRun
    /\ serverBinary = FALSE
    /\ serverInstalled = FALSE
    /\ ran = <<>>
    /\ scriptEnv = <<>>
    /\ installedBefore = FALSE

\* No install is running.
IdleInstall ==
    /\ ipc = "idle"
    /\ localArchiveSize = 0
    /\ remoteFile = NoFile
    /\ uploads = 0
    /\ removes = 0
    /\ sizesRead = <<>>
    /\ stdout = <<>>
    /\ envVariables = {}
    /\ outcome = NotRun
    /\ serverBinary = FALSE
    /\ serverInstalled = FALSE
    /\ ran = <<>>
    /\ scriptEnv = <<>>
    /\ installedBefore = FALSE

\* =========================================================================
\*                   PART 4: getOrDownloadServerOnRemote
\* =========================================================================
\* What `uname -m` prints on the remote host.
UnameOutputs ==
    { <<"x86_64", "\n">>, <<"amd64", "\n">>, <<"aarch64", "\n">>, <<" ", "arm64", "\n">>,
      <<"sparc64", "\n">>, <<>> }

\* A faulty mapping that takes every unknown output for x86_64.
ArchOf_FallbackX64(out) ==
    LET archOutput == Trim(out)
    IN  IF archOutput = <<"aarch64">> \/ archOutput = <<"arm64">> THEN "arm64" ELSE "x64"

\* detectRemoteSystem, lines 17-26: the arch, or "" for `throw new Error`.
ArchOf(out) ==
    LET archOutput == Trim(out)
    IN  IF archOutput = <<"x86_64">> \/ archOutput = <<"amd64">> THEN "x64"
        ELSE IF archOutput = <<"aarch64">> \/ archOutput = <<"arm64">> THEN "arm64"
        ELSE ""

\* getLocalServerPath, lines 33-54: whether the configured directory holds the
\* file named after the arch and the version.
getLocalServerPath(dist, a) == dist.configured /\ a \in dist.archs

NoPath == [status |-> "none", message |-> "", path |-> ""]
ReturnedPath == [status |-> "ok", message |-> "", path |-> "remoteServerDir/cache/server.tar.gz"]
ThrewError(msg) == [status |-> "Error", message |-> msg, path |-> ""]

\* remote.SSH.serverVersion, lines 41 and 59.
Versions == {"0.1.0", "0.2.0"}

\* What an archive is the archive of: the version and the arch in the name of
\* the local file (line 43) or in the url (line 62).
NoArchive == [version |-> "", arch |-> ""]
ArchiveOf(version, a) == [version |-> version, arch |-> a]

InitResolve ==
    /\ rpc = "start"
    /\ arch = ""
    /\ localDist \in [configured : BOOLEAN, archs : SUBSET {"x64", "arm64"}]
    /\ remoteCache \in {NoFile} \cup {File(n) : n \in ArchiveSizes}
    /\ rlog = <<>>
    /\ rresult = NoPath
    /\ unameOut = <<>>
    /\ serverVersion \in Versions
    /\ cacheOf = IF remoteCache.exists THEN ArchiveOf(serverVersion, "x64") ELSE NoArchive

\* No resolution is running.
IdleResolve ==
    /\ rpc = "idle"
    /\ arch = ""
    /\ localDist = [configured |-> FALSE, archs |-> {}]
    /\ remoteCache = NoFile
    /\ rlog = <<>>
    /\ rresult = NoPath
    /\ unameOut = <<>>
    /\ serverVersion = "0.1.0"
    /\ cacheOf = NoArchive

ResolveFail(msg) ==
    /\ rpc' = "done"
    /\ rresult' = ThrewError(msg)

\* getOrDownloadServerOnRemote, line 155, and detectRemoteSystem, lines 14-31.
ResolveDetect ==
    /\ rpc = "start"
    /\ \E out \in UnameOutputs :
          /\ rlog' = Append(rlog, "exec uname -m")
          /\ unameOut' = out
          /\ IF ArchOf(out) = ""
             THEN ResolveFail("Unsupported architecture") /\ UNCHANGED arch
             ELSE /\ arch' = ArchOf(out)
                  /\ rpc' = "local"
                  /\ UNCHANGED rresult
    /\ UNCHANGED <<localDist, remoteCache, serverVersion, cacheOf>>
    /\ ResolveOnly

\* getOrDownloadServerOnRemote, lines 162-167, and uploadLocalServer, lines
\* 132-148: with a local archive, mkdir -p, the upload, and the return of the
\* remote path.
ResolveLocal ==
    /\ rpc = "local"
    /\ IF getLocalServerPath(localDist, arch)
       THEN \/ /\ \E f \in UploadResults(MaxArchiveSize) : remoteCache' = f
               /\ cacheOf' = IF remoteCache'.exists THEN ArchiveOf(serverVersion, arch)
                              ELSE NoArchive
               /\ rlog' = rlog \o <<"exec mkdir -p", "uploadFile">>
               /\ rpc' = "done"
               /\ rresult' = ReturnedPath
            \/ /\ rlog' = rlog \o <<"exec mkdir -p", "uploadFile">>
               /\ ResolveFail(TransportError)
               /\ UNCHANGED <<remoteCache, cacheOf>>
       ELSE /\ rpc' = "cache"
            /\ UNCHANGED <<remoteCache, cacheOf, rlog, rresult>>
    /\ UNCHANGED <<arch, localDist, unameOut, serverVersion>>
    /\ ResolveOnly

\* A faulty test that never finds the cached file.
ResolveCacheCheck_AlwaysDownload ==
    /\ rpc = "cache"
    /\ rlog' = Append(rlog, "exec test -f")
    /\ rpc' = "download"
    /\ UNCHANGED <<arch, localDist, remoteCache, unameOut, rresult, serverVersion, cacheOf>>
    /\ ResolveOnly

\* getOrDownloadServerOnRemote, lines 174-178: the test for the cached file.
ResolveCacheCheck ==
    /\ rpc = "cache"
    /\ rlog' = Append(rlog, "exec test -f")
    /\ IF remoteCache.exists
       THEN rpc' = "done" /\ rresult' = ReturnedPath
       ELSE rpc' = "download" /\ UNCHANGED rresult
    /\ UNCHANGED <<arch, localDist, remoteCache, unameOut, serverVersion, cacheOf>>
    /\ ResolveOnly

\* getOrDownloadServerOnRemote, lines 181-189, and downloadServerOnRemote, lines
\* 65-130: the download script prints DOWNLOAD_COMPLETE after it moved what curl
\* or wget wrote to the cache path; without that line the call throws.
ResolveDownload ==
    /\ rpc = "download"
    /\ rlog' = rlog \o <<"exec mkdir -p", "exec download script">>
    /\ \/ /\ \E f \in UploadResults(MaxArchiveSize) \ {NoFile} : remoteCache' = f
          /\ cacheOf' = ArchiveOf(serverVersion, arch)
          /\ rpc' = "done"
          /\ rresult' = ReturnedPath
       \/ /\ ResolveFail("Download failed")
          /\ UNCHANGED <<remoteCache, cacheOf>>
    /\ UNCHANGED <<arch, localDist, unameOut, serverVersion>>
    /\ ResolveOnly

\* getOrDownloadServerOnRemote is called again with the same remoteServerDir,
\* line 150: the configuration is read anew (lines 34-41, 57-59), the file at
\* the cache path is as the earlier calls left it.
ResolveAgain ==
    /\ rpc = "done"
    /\ rpc' = "start"
    /\ arch' = ""
    /\ rlog' = <<>>
    /\ rresult' = NoPath
    /\ unameOut' = <<>>
    /\ localDist' \in [configured : BOOLEAN, archs : SUBSET {"x64", "arm64"}]
    /\ serverVersion' \in Versions
    /\ UNCHANGED <<remoteCache, cacheOf>>
    /\ ResolveOnly

\* The first call for a remoteServerDir: nothing is at the cache path.
InitReresolve ==
    /\ rpc = "start"
    /\ arch = ""
    /\ localDist \in [configured : BOOLEAN, archs : SUBSET {"x64", "arm64"}]
    /\ remoteCache = NoFile
    /\ rlog = <<>>
    /\ rresult = NoPath
    /\ unameOut = <<>>
    /\ serverVersion \in Versions
    /\ cacheOf = NoArchive

\* =========================================================================
\*                   PART 5: gatherIdentityFiles
\* =========================================================================
\* A path is a sequence of symbols: "~", a directory, a file name, ".pub".
Home == "/home/u"

\* untildify (../common/files): a leading ~ becomes the home directory.
untildify(path) ==
    IF path # <<>> /\ path[1] = "~" THEN <<Home>> \o Tail(path) ELSE path

\* i.replace(/\.pub$/, ''), line 41.
StripPub(path) ==
    IF path # <<>> /\ path[Len(path)] = ".pub" THEN SubSeq(path, 1, Len(path) - 1) ELSE path

\* DEFAULT_IDENTITY_FILES, lines 12-28.
DEFAULT_IDENTITY_FILES ==
    << <<Home, "/.ssh/id_rsa">>, <<Home, "/.ssh/id_ecdsa">>, <<Home, "/.ssh/id_ecdsa_sk">>,
       <<Home, "/.ssh/id_ed25519">>, <<Home, "/.ssh/id_ed25519_sk">>,
       <<Home, "/.ssh/id_xmss">>, <<Home, "/.ssh/id_dsa">> >>

\* Lines 41-44: the paths are normalised; an empty list becomes the default one.
NormalizedFiles(raw) ==
    IF raw = <<>> THEN DEFAULT_IDENTITY_FILES
    ELSE [i \in 1..Len(raw) |-> StripPub(untildify(raw[i]))]

\* The paths callers pass: one key written in two ways, and another key.
RawPaths ==
    { <<"~", "/.ssh/id_rsa">>, <<Home, "/.ssh/id_rsa", ".pub">>, <<"/keys/work">> }

\* The paths that may hold a file.
DiskPaths == { <<Home, "/.ssh/id_rsa">>, <<"/keys/work">> }

\* Public keys: their type and their public blob.
KeyA == [type |-> "ssh-rsa", pub |-> "A"]
KeyB == [type |-> "ssh-ed25519", pub |-> "B"]
KeyC == [type |-> "ssh-rsa", pub |-> "C"]
NoKey == [type |-> "", pub |-> ""]

\* What is at a path: nothing, a file that cannot be read, a file that is no
\* key, a private key file.
Missing == [kind |-> "missing", key |-> NoKey]
Unreadable == [kind |-> "unreadable", key |-> NoKey]
Garbage == [kind |-> "garbage", key |-> NoKey]
KeyFile(k) == [kind |-> "key", key |-> k]
Contents == {Missing, Unreadable, Garbage, KeyFile(KeyA), KeyFile(KeyB)}

DiskAt(path) == IF path \in DOMAIN disk THEN disk[path] ELSE Missing

\* What the agent lists: every list of at most MaxAgent identities.
AgentLists == UNION {[1..n -> {KeyA, KeyB, KeyC}] : n \in 0..MaxAgent}

\* sshAgentSock and the agent: no socket, a failing agent, an answering agent.
NoAgent == [sock |-> FALSE, failing |-> FALSE, keys |-> <<>>]
FailingAgent == [sock |-> TRUE, failing |-> TRUE, keys |-> <<>>]
Agents == {NoAgent, FailingAgent} \cup {[sock |-> TRUE, failing |-> FALSE, keys |-> l] : l \in AgentLists}

\* crypto.createHash('sha256').update(parsedKey.getPublicSSH()).digest('base64'),
\* lines 79 and 116: the public blob names the type, so the hash tells two
\* keys apart exactly when their type or their blob differ.
Fingerprint(key) == <<"sha256", key.type, key.pub>>

\* The settled result of the read of one path, lines 46-52.
Pending == [status |-> "pending", content |-> Missing]
Rejected == [status |-> "rejected", content |-> Missing]
Fulfilled(c) == [status |-> "fulfilled", content |-> c]

\* Lines 47-51: fileExists, then readFile.
ReadResult(path) ==
    IF DiskAt(path).kind = "missing" THEN Rejected
    ELSE IF DiskAt(path).kind = "unreadable" THEN Rejected
    ELSE Fulfilled(DiskAt(path))

NotReturned == [status |-> "none", keys |-> <<>>]
ReturnedKeys(ks) == [status |-> "ok", keys |-> ks]

InitGather ==
    /\ gpc = "start"
    /\ rawFiles \in UNION {[1..n -> RawPaths] : n \in 0..MaxFiles}
    /\ disk \in [DiskPaths -> Contents]
    /\ agent \in Agents
    /\ identitiesOnly \in BOOLEAN
    /\ identityFiles = <<>>
    /\ settled = <<>>
    /\ gresult = NotReturned

\* No gathering is running.
IdleGather ==
    /\ gpc = "idle"
    /\ rawFiles = <<>>
    /\ disk = [q \in DiskPaths |-> Missing]
    /\ agent = NoAgent
    /\ identitiesOnly = FALSE
    /\ identityFiles = <<>>
    /\ settled = <<>>
    /\ gresult = NotReturned

\* ssh2.utils.parseKey(content), lines 72-78: the parsed key, or an Error.
parseKey(content) ==
    IF content.kind = "key" THEN [error |-> FALSE, key |-> content.key]
    ELSE [error |-> TRUE, key |-> NoKey]

\* A faulty test that takes every file that could be read for a key.
Usable_EveryRead(readResult) == readResult.status = "fulfilled"

\* Whether the forEach of lines 55-92 pushes a key for a settled result: the
\* read was fulfilled and the content parsed.
Usable(readResult) == readResult.status = "fulfilled" /\ ~parseKey(readResult.content).error

\* The SSHKey pushed at lines 81-88.
FileKey(keyPath, key) ==
    [filename |-> keyPath, type |-> key.type, fingerprint |-> Fingerprint(key),
     isCertificate |-> "false", isPrivate |-> "true", agentSupport |-> FALSE]

\* fileKeys after the forEach of lines 54-92 over the results 1..n, in the
\* order of the indexes.
RECURSIVE FileKeysOf(_, _, _)
FileKeysOf(files, results, n) ==
    IF n = 0 THEN <<>>
    ELSE LET before == FileKeysOf(files, results, n - 1)
         IN  IF Usable(results[n])
             THEN Append(before, FileKey(files[n], parseKey(results[n].content).key))
             ELSE before

\* sshAgentKeys, lines 115-123: the agent's identities, named by their comment.
AgentKey(key) ==
    [filename |-> <<"comment", key.pub>>, type |-> key.type, fingerprint |-> Fingerprint(key),
     isCertificate |-> "undefined", isPrivate |-> "undefined", agentSupport |-> TRUE]

\* sshAgentParsedKeys, lines 94-113: empty without a socket or when the agent
\* fails, since the catch of line 111 swallows the error.
AgentParsedKeys(a) == IF ~a.sock \/ a.failing THEN <<>> ELSE a.keys

\* fileKeys.findIndex of lines 128-134, counted from 1; 0 when nothing matches.
FindIndex(fileKeys, agentKey) ==
    LET hits == {i \in DOMAIN fileKeys :
                    /\ fileKeys[i].isCertificate # "true"
                    /\ agentKey.type = fileKeys[i].type
                    /\ agentKey.fingerprint = fileKeys[i].fingerprint}
    IN  IF hits = {} THEN 0 ELSE Min(hits)

\* A faulty splice that removes nothing.
Splice_Keep(fileKeys, foundIdx) == fileKeys

\* fileKeys.splice(foundIdx, 1), line 137.
Splice(fileKeys, foundIdx) ==
    SubSeq(fileKeys, 1, foundIdx - 1) \o SubSeq(fileKeys, foundIdx + 1, Len(fileKeys))

\* A faulty order: the file keys before the agent-only keys.
ResultOrder_FilesFirst(preferredIdentityKeys, agentKeys, fileKeys) ==
    preferredIdentityKeys \o fileKeys \o agentKeys

\* Lines 142-143: the agent-only keys, then the file keys, after the merged ones.
ResultOrder(preferredIdentityKeys, agentKeys, fileKeys) ==
    preferredIdentityKeys \o agentKeys \o fileKeys

\* preferredIdentityKeys.filter(k => !k.isCertificate), line 146.
RECURSIVE RegularKeys(_)
RegularKeys(keys) ==
    IF keys = <<>> THEN <<>>
    ELSE IF keys[1].isCertificate # "true" THEN <<keys[1]>> \o RegularKeys(Tail(keys))
    ELSE RegularKeys(Tail(keys))

\* The loop of lines 127-141 over the agent keys still to visit, and lines
\* 142-147 after it.
RECURSIVE MergeLoop(_, _, _, _, _)
MergeLoop(sshAgentKeys, fileKeys, preferredIdentityKeys, agentKeys, only) ==
    IF sshAgentKeys = <<>>
    THEN RegularKeys(ResultOrder(preferredIdentityKeys, agentKeys, fileKeys))
    ELSE LET agentKey == Head(sshAgentKeys)
             foundIdx == FindIndex(fileKeys, agentKey)
         IN  IF foundIdx >= 1
             THEN MergeLoop(Tail(sshAgentKeys), Splice(fileKeys, foundIdx),
                            Append(preferredIdentityKeys,
                                   [fileKeys[foundIdx] EXCEPT !.agentSupport = TRUE]),
                            agentKeys, only)
             ELSE IF ~only
             THEN MergeLoop(Tail(sshAgentKeys), fileKeys, preferredIdentityKeys,
                            Append(agentKeys, agentKey), only)
             ELSE MergeLoop(Tail(sshAgentKeys), fileKeys, preferredIdentityKeys,
                            agentKeys, only)

\* Lines 115-154 for the parsed agent keys.
SortedKeys(parsedKeys) ==
    MergeLoop([i \in DOMAIN parsedKeys |-> AgentKey(parsedKeys[i])],
              FileKeysOf(identityFiles, settled, Len(identityFiles)),
              <<>>, <<>>, identitiesOnly)

\* Lines 41-46: the paths are normalised and every read is started.
GatherStart ==
    /\ gpc = "start"
    /\ identityFiles' = NormalizedFiles(rawFiles)
    /\ settled' = [i \in 1..Len(identityFiles') |-> Pending]
    /\ gpc' = "reading"
    /\ UNCHANGED <<rawFiles, disk, agent, identitiesOnly, gresult>>
    /\ GatherOnly

\* Lines 46-52: the read of the i-th path settles; the reads settle in any order.
ReadSettle(i) ==
    /\ gpc = "reading"
    /\ i \in DOMAIN settled
    /\ settled[i] = Pending
    /\ settled' = [settled EXCEPT ![i] = ReadResult(identityFiles[i])]
    /\ UNCHANGED <<gpc, rawFiles, disk, agent, identityFiles, identitiesOnly, gresult>>
    /\ GatherOnly

\* Lines 54-100: all reads have settled, the files are parsed; without a
\* socket the throw of line 97 is caught and the call goes on to its end,
\* with a socket the agent is asked.
GatherParse ==
    /\ gpc = "reading"
    /\ \A i \in DOMAIN settled : settled[i] # Pending
    /\ IF ~agent.sock
       THEN /\ gresult' = ReturnedKeys(SortedKeys(AgentParsedKeys(agent)))
            /\ gpc' = "done"
       ELSE /\ gpc' = "agent"
            /\ UNCHANGED gresult
    /\ UNCHANGED <<rawFiles, disk, agent, identityFiles, identitiesOnly, settled>>
    /\ GatherOnly

\* Lines 102-154: the agent answers or fails, and the keys are merged.
GatherAgent ==
    /\ gpc = "agent"
    /\ gresult' = ReturnedKeys(SortedKeys(AgentParsedKeys(agent)))
    /\ gpc' = "done"
    /\ UNCHANGED <<rawFiles, disk, agent, identityFiles, identitiesOnly, settled>>
    /\ GatherOnly

\* =========================================================================
\*                   PART 6: downloadServer (src/src/native/ssh.ts)
\* =========================================================================
\* The urls the download meets: the one it is called with and the ones
\* Location headers name.
Urls == {"release", "mirror", "cdn"}

\* What the server answers to one https.get: a response with its status code
\* and its Location header ("" when it has none), or no response at all, the
\* request's 'error' event.
Responses ==
    [kind : {"response"}, statusCode : {200, 301, 302, 404, 500}, location : Urls \cup {""}]
        \cup {[kind |-> "error", statusCode |-> 0, location |-> ""]}

NotSettled == [status |-> "none", message |-> "", code |-> 0]
Resolved == [status |-> "ok", message |-> "", code |-> 0]
Rejected_Http(code) == [status |-> "Error", message |-> "Failed to download server: HTTP", code |-> code]
Rejected_Request == [status |-> "Error", message |-> "request error", code |-> 0]

\* Lines 85-87: the response is a redirect that names where to go.
FollowsRedirect(response) ==
    /\ response.statusCode \in {301, 302}
    /\ response.location # ""

\* Lines 79-83: the write stream is created and the request is sent.
DownloadStart ==
    /\ dpc = "start"
    /\ dpc' = "request"
    /\ dfile' = "empty"
    /\ drequests' = 1
    /\ UNCHANGED <<durl, dresult>>
    /\ DownloadOnly

\* Lines 84-100 and 109-113: the callback of https.get for a response, or the
\* 'error' handler.  A redirect with a Location removes the file and calls
\* downloadServer again, which creates the file and sends a request; the outer
\* promise settles as the inner one does.
DownloadRespond ==
    /\ dpc = "request"
    /\ \E response \in Responses :
          IF response.kind = "error"
          THEN /\ dfile' = "absent"
               /\ dpc' = "done"
               /\ dresult' = Rejected_Request
               /\ UNCHANGED <<durl, drequests>>
          ELSE IF FollowsRedirect(response)
          THEN /\ durl' = response.location
               /\ dfile' = "empty"
               /\ drequests' = IF drequests < MaxRequests THEN drequests + 1 ELSE drequests
               /\ UNCHANGED <<dpc, dresult>>
          ELSE IF response.statusCode # 200
          THEN /\ dfile' = "absent"
               /\ dpc' = "done"
               /\ dresult' = Rejected_Http(response.statusCode)
               /\ UNCHANGED <<durl, drequests>>
          ELSE /\ dpc' = "piping"
               /\ UNCHANGED <<durl, dfile, drequests, dresult>>
    /\ DownloadOnly

\* Lines 102-108: the body has been written, 'finish' resolves the promise.
DownloadFinish ==
    /\ dpc = "piping"
    /\ dfile' = "complete"
    /\ dpc' = "done"
    /\ dresult' = Resolved
    /\ UNCHANGED <<durl, drequests>>
    /\ DownloadOnly

Resolvers == 1..NumResolvers

\* A call of tryDownloadServer: where it stands, whether its write stream is
\* open on the file that is at cachedServerPath, what it returned ("" before
\* it returns, "path" for cachedServerPath, "null"), and, as history, what
\* the file at the path was when it returned.
NewCall == [pos |-> "access", attached |-> FALSE, returned |-> "", fileAtReturn |-> ""]

\* No tryDownloadServer is running.
IdleTryDownload ==
    /\ tryCall = [r \in Resolvers |-> [NewCall EXCEPT !.pos = "idle"]]
    /\ cacheFile = "absent"

InitDownload ==
    /\ dpc = "start"
    /\ durl \in Urls
    /\ dfile \in {"absent", "complete"}
    /\ drequests = 0
    /\ dresult = NotSettled
    /\ IdleTryDownload

\* No download is running.
IdleDownload ==
    /\ dpc = "idle"
    /\ durl = "release"
    /\ dfile = "absent"
    /\ drequests = 0
    /\ dresult = NotSettled
    /\ IdleTryDownload

\* ------------------------------------------------------- tryDownloadServer
\* Lines 133-158, with the downloadServer each call runs (73-116), for calls
\* that overlap on one cachedServerPath: the url is the same, so the hash of
\* line 139 is.  Each action is the code between two awaits or events of one
\* call.

\* Another call's stream is open on the file at the path and has not finished.
OtherWriter(r) ==
    \E q \in Resolvers \ {r} :
        tryCall[q].attached /\ tryCall[q].pos \in {"request", "piping"}

\* fs.createWriteStream(destPath), line 81: the file at the path is created,
\* or opened and truncated, and the stream of the call is on it.
CreateWriteStream(r, next) ==
    /\ cacheFile' = "partial"
    /\ tryCall' = [tryCall EXCEPT ![r] = [@ EXCEPT !.pos = next, !.attached = TRUE]]

\* fs.unlinkSync(destPath), lines 88, 98, 112: the path has no file any more,
\* and no stream is on the file of the path.
Unlinked(calls) == [q \in Resolvers |-> [calls[q] EXCEPT !.attached = FALSE]]

\* return cachedServerPath / return null, lines 146, 152, 155.
Return(call, value, file) ==
    [call EXCEPT !.pos = "done", !.returned = value, !.fileAtReturn = file]

\* Lines 135-148: the cache directory is made, the path is computed, and
\* fs.promises.access tells whether a file is at the path.
TryAccess(r) ==
    /\ tryCall[r].pos = "access"
    /\ IF cacheFile # "absent"
       THEN tryCall' = [tryCall EXCEPT ![r] = Return(@, "path", cacheFile)]
       ELSE tryCall' = [tryCall EXCEPT ![r] = [@ EXCEPT !.pos = "download"]]
    /\ UNCHANGED cacheFile
    /\ TryDownloadOnly

\* Lines 151 and 78-83: downloadServer creates the write stream and sends the
\* request.
TryDownloadStart(r) ==
    /\ tryCall[r].pos = "download"
    /\ CreateWriteStream(r, "request")
    /\ TryDownloadOnly

\* Lines 84-101 and 110-114: the callback for a response, or the 'error'
\* handler.  unlinkSync throws when the path has no file: the exception leaves
\* the callback before resolve or reject, and the call never returns.
TryRespond(r) ==
    /\ tryCall[r].pos = "request"
    /\ \E response \in Responses :
          IF response.kind = "response" /\ ~FollowsRedirect(response)
             /\ response.statusCode = 200
          THEN /\ tryCall' = [tryCall EXCEPT ![r] = [@ EXCEPT !.pos = "piping"]]
               /\ UNCHANGED cacheFile
          ELSE IF cacheFile = "absent"
          THEN /\ tryCall' = [tryCall EXCEPT ![r] = [@ EXCEPT !.pos = "hung"]]
               /\ UNCHANGED cacheFile
          ELSE IF response.kind = "response" /\ FollowsRedirect(response)
          THEN \* unlink, then downloadServer again: a new file at the path
               /\ cacheFile' = "partial"
               /\ tryCall' = [Unlinked(tryCall) EXCEPT ![r] = [@ EXCEPT !.attached = TRUE]]
          ELSE /\ cacheFile' = "absent"
               /\ tryCall' = [Unlinked(tryCall) EXCEPT ![r] = Return(@, "null", "absent")]
    /\ TryDownloadOnly

\* Lines 103-108 and 152: the body has been written through the stream,
\* 'finish' resolves, tryDownloadServer returns the path.  When the stream is
\* on the file of the path and another stream is writing it too, the file is
\* whole or not, as the writes fell; when the stream is on a file that was
\* unlinked, the path has what the others left.
TryFinish(r) ==
    /\ tryCall[r].pos = "piping"
    /\ \E file \in {"partial", "complete"} :
          /\ IF ~tryCall[r].attached THEN file = cacheFile \/ cacheFile = "absent"
             ELSE OtherWriter(r) \/ file = "complete"
          /\ cacheFile' = IF tryCall[r].attached THEN file ELSE cacheFile
          /\ tryCall' = [tryCall EXCEPT ![r] = Return(@, "path", cacheFile')]
    /\ TryDownloadOnly

\* The process of a call ends while the call waits for the response or
\* writes the body: nothing of lines 96-114 runs, the file stays as it is.
TryInterrupt(r) ==
    /\ tryCall[r].pos \in {"request", "piping"}
    /\ tryCall' = [tryCall EXCEPT ![r] = [@ EXCEPT !.pos = "interrupted", !.attached = FALSE]]
    /\ UNCHANGED cacheFile
    /\ TryDownloadOnly

\* tryDownloadServer is called again for the url, after an earlier call
\* returned or was interrupted.
TryAgain(r) ==
    /\ tryCall[r].pos \in {"done", "interrupted"}
    /\ tryCall' = [tryCall EXCEPT ![r] = NewCall]
    /\ UNCHANGED cacheFile
    /\ TryDownloadOnly

\* The calls start with nothing at the path, or with an archive that an
\* earlier call downloaded.
InitTryDownload ==
    /\ dpc = "idle"
    /\ durl = "release"
    /\ dfile = "absent"
    /\ drequests = 0
    /\ dresult = NotSettled
    /\ tryCall = [r \in Resolvers |-> NewCall]
    /\ cacheFile \in {"absent", "complete"}

\* =========================================================================
\*                   PART 7: the install script on the remote host
\* =========================================================================
\* Lines 349-402 of generateBashInstallScript, run by bash on the remote host,
\* with the server processes the runs launch.  Each action is one command (or
\* one group of commands on one file) of one run, or one step of a server.
Runs == 1..NumRuns

\* `for i in {1..5}`, line 384.
PollAttempts == 5

NoPid == 0
NoToken == <<>>
\* The token a run makes, "${crypto.randomUUID()}" of line 366, and the token
\* of a server that was started before the runs.
TokenOf(r) == <<"uuid", r>>
OldToken == <<"uuid", 0>>

\* The address the server of a pid listens on; 0 is the empty $LISTENING_ON.
PortOf(pid) == 40000 + pid

NoTokenFile == [exists |-> FALSE, content |-> NoToken, mode |-> 0]
TokenFile(content, mode) == [exists |-> TRUE, content |-> content, mode |-> mode]
NoLogFile == [exists |-> FALSE, owner |-> NoPid, port |-> 0]
LogFile(owner, port) == [exists |-> TRUE, owner |-> owner, port |-> port]

\* A server process: whether it runs, the token it read from the token file
\* when it started, whether it listens.
Launched == [alive |-> TRUE, booted |-> FALSE, token |-> NoToken, listening |-> FALSE]
Serving(token) == [alive |-> TRUE, booted |-> TRUE, token |-> token, listening |-> TRUE]
Dead(token) == [alive |-> FALSE, booted |-> TRUE, token |-> token, listening |-> FALSE]

\* The shell variables of a run: $SERVER_RUNNING_PROCESS is non-empty,
\* $SERVER_CONNECTION_TOKEN, $LISTENING_ON, the i of the loop, $!, and the
\* code given to print_install_results_and_exit (-1 before it is called).
NewRun ==
    [pos |-> "check", found |-> FALSE, token |-> NoToken, listeningOn |-> 0,
     attempts |-> 0, launched |-> NoPid, exitCode |-> -1]

\* Lines 349-354: with a pid file, `ps -p` of its pid; without, `ps -A`.
ServerRunningProcess ==
    IF pidFile # NoPid
    THEN pidFile \in DOMAIN procs /\ procs[pidFile].alive
    ELSE \E p \in DOMAIN procs : procs[p].alive

\* A faulty loop exit: the script reports success whatever it read.
PollExitCode_AlwaysZero(listening) == 0

\* Lines 392-402: the code the script ends with after the loop.
PollExitCode(listening) == IF listening = 0 THEN 1 ELSE 0

RunStep(r, next) == run' = [run EXCEPT ![r] = next]

\* Lines 349-356: the liveness check.
ScriptCheck(r) ==
    /\ run[r].pos = "check"
    /\ RunStep(r, [run[r] EXCEPT !.found = ServerRunningProcess,
                                 !.pos = IF ServerRunningProcess THEN "token" ELSE "rotate"])
    /\ UNCHANGED <<procs, pidFile, tokenFile, logFile>>
    /\ ScriptOnly

\* Lines 357-362: the old log and token files are removed.
ScriptRotate(r) ==
    /\ run[r].pos = "rotate"
    /\ logFile' = NoLogFile
    /\ tokenFile' = NoTokenFile
    /\ RunStep(r, [run[r] EXCEPT !.pos = "mktoken"])
    /\ UNCHANGED <<procs, pidFile>>
    /\ ScriptOnly

\* A faulty script without the chmod of line 365.
ScriptWriteToken_WorldReadable(r) ==
    /\ run[r].pos = "mktoken"
    /\ tokenFile' = TokenFile(TokenOf(r), 644)
    /\ RunStep(r, [run[r] EXCEPT !.token = TokenOf(r), !.pos = "launch"])
    /\ UNCHANGED <<procs, pidFile, logFile>>
    /\ ScriptOnly

\* Lines 364-367: touch, chmod 600, a fresh token, written to the file.
ScriptWriteToken(r) ==
    /\ run[r].pos = "mktoken"
    /\ tokenFile' = TokenFile(TokenOf(r), 600)
    /\ RunStep(r, [run[r] EXCEPT !.token = TokenOf(r), !.pos = "launch"])
    /\ UNCHANGED <<procs, pidFile, logFile>>
    /\ ScriptOnly

\* Line 369: the server is started in the background, its output redirected
\* to the log file, which the shell creates or truncates.
ScriptLaunch(r) ==
    /\ run[r].pos = "launch"
    /\ procs' = Append(procs, Launched)
    /\ logFile' = LogFile(Len(procs) + 1, 0)
    /\ RunStep(r, [run[r] EXCEPT !.launched = Len(procs) + 1, !.pos = "recordpid"])
    /\ UNCHANGED <<pidFile, tokenFile>>
    /\ ScriptOnly

\* Line 370: echo $! > $SERVER_PIDFILE.
ScriptRecordPid(r) ==
    /\ run[r].pos = "recordpid"
    /\ pidFile' = run[r].launched
    /\ RunStep(r, [run[r] EXCEPT !.pos = "token"])
    /\ UNCHANGED <<procs, tokenFile, logFile>>
    /\ ScriptOnly

\* Lines 375-380: the token is read from the token file; without the file the
\* script ends with code 1.
ScriptReadToken(r) ==
    /\ run[r].pos = "token"
    /\ IF tokenFile.exists
       THEN RunStep(r, [run[r] EXCEPT !.token = tokenFile.content, !.pos = "logtest"])
       ELSE RunStep(r, [run[r] EXCEPT !.exitCode = 1, !.pos = "done"])
    /\ UNCHANGED <<procs, pidFile, tokenFile, logFile>>
    /\ ScriptOnly

\* Lines 382 and 396-399: without a log file the script ends with code 1.
ScriptLogTest(r) ==
    /\ run[r].pos = "logtest"
    /\ IF logFile.exists
       THEN RunStep(r, [run[r] EXCEPT !.pos = "poll"])
       ELSE RunStep(r, [run[r] EXCEPT !.exitCode = 1, !.pos = "done"])
    /\ UNCHANGED <<procs, pidFile, tokenFile, logFile>>
    /\ ScriptOnly

\* Lines 383-402: one turn of the loop, `cat $SERVER_LOGFILE | grep ... | sed`;
\* a listening line ends the loop, and so does the last turn; the script then
\* ends with the code of PollExitCode.
ScriptPoll(r) ==
    /\ run[r].pos = "poll"
    /\ LET listening == IF logFile.exists THEN logFile.port ELSE 0
           i == run[r].attempts + 1
       IN  IF listening # 0 \/ i = PollAttempts
           THEN RunStep(r, [run[r] EXCEPT !.listeningOn = listening, !.attempts = i,
                                          !.exitCode = PollExitCode(listening),
                                          !.pos = "done"])
           ELSE RunStep(r, [run[r] EXCEPT !.attempts = i])
    /\ UNCHANGED <<procs, pidFile, tokenFile, logFile>>
    /\ ScriptOnly

\* A launched server starts: it reads the file named by
\* --connection-token-file; without the file it exits.
ServerBoot(p) ==
    /\ p \in DOMAIN procs
    /\ procs[p].alive /\ ~procs[p].booted
    /\ procs' = [procs EXCEPT ![p] =
                    IF tokenFile.exists
                    THEN [@ EXCEPT !.booted = TRUE, !.token = tokenFile.content]
                    ELSE [@ EXCEPT !.booted = TRUE, !.alive = FALSE]]
    /\ UNCHANGED <<run, pidFile, tokenFile, logFile>>
    /\ ScriptOnly

\* A started server listens and prints 'Extension host agent listening on';
\* the line is in the log file when that file is still the one the server
\* was launched with.
ServerListen(p) ==
    /\ p \in DOMAIN procs
    /\ procs[p].alive /\ procs[p].booted /\ ~procs[p].listening
    /\ procs' = [procs EXCEPT ![p].listening = TRUE]
    /\ logFile' = IF logFile.exists /\ logFile.owner = p THEN LogFile(p, PortOf(p)) ELSE logFile
    /\ UNCHANGED <<run, pidFile, tokenFile>>
    /\ ScriptOnly

\* A server process ends: it fails to start, or shuts down.
ServerExit(p) ==
    /\ p \in DOMAIN procs
    /\ procs[p].alive
    /\ procs' = [procs EXCEPT ![p].alive = FALSE, ![p].listening = FALSE]
    /\ UNCHANGED <<run, pidFile, tokenFile, logFile>>
    /\ ScriptOnly

\* The remote host before the runs: nothing of the server; a server that
\* runs, with its files; the files of a server that runs no more; a running
\* server whose pid file is gone.
InitScript ==
    /\ run = [r \in Runs |-> NewRun]
    /\ \/ /\ procs = <<>>
          /\ pidFile = NoPid /\ tokenFile = NoTokenFile /\ logFile = NoLogFile
       \/ /\ procs \in {<<Serving(OldToken)>>, <<Dead(OldToken)>>}
          /\ pidFile \in {1, NoPid}
          /\ tokenFile = TokenFile(OldToken, 600)
          /\ logFile = LogFile(1, PortOf(1))

\* No script is running.
IdleScript ==
    /\ run = [r \in Runs |-> [NewRun EXCEPT !.pos = "idle"]]
    /\ procs = <<>>
    /\ pidFile = NoPid
    /\ tokenFile = NoTokenFile
    /\ logFile = NoLogFile

\* =========================================================================
\*                   The specifications
\* =========================================================================
Next ==
    \E c \in Callers :
        \/ CallConnect(c)
        \/ CallExec(c)
        \/ CallUploadFile(c)
        \/ CallAddTunnel(c)
        \/ CallCloseTunnel(c)
        \/ CallClose(c)
        \/ HandshakeResolve(c)
        \/ HandshakeReject(c)
        \/ TransportCallStart(c)
        \/ TransportCallResolve(c)
        \/ TransportCallReject(c)
        \/ AddTunnelResume(c)
        \/ ForwardResolve(c)
        \/ ForwardReject(c)
        \/ DisconnectResolve(c)
        \/ DisconnectReject(c)

\* One NativeSSHConnection and its callers.
Init == InitSession /\ IdleInstall /\ IdleResolve /\ IdleGather /\ IdleDownload /\ IdleScript
Spec == Init /\ [][Next]_vars

InitOfInstall == InitSession /\ InitInstall /\ IdleResolve /\ IdleGather /\ IdleDownload /\ IdleScript
NextInstall ==
    \/ InstallStart
    \/ InstallUpload
    \/ VerifyFirstSize
    \/ VerifyRetryUpload
    \/ VerifyRetrySize
    \/ InstallRunScript
    \/ InstallFinish

\* One call of installCodeServer.
SpecInstall == InitOfInstall /\ [][NextInstall]_vars

NextReinstall ==
    \/ NextInstall
    \/ InstallAgain

\* Calls of installCodeServer one after the other on one remote host.
SpecReinstall == InitOfInstall /\ [][NextReinstall]_vars

InitOfParse == InitSession /\ InitParse /\ IdleResolve /\ IdleGather /\ IdleDownload /\ IdleScript
NextParse == InstallFinish

\* installCodeServer from line 106 on, for every stdout.
SpecParse == InitOfParse /\ [][NextParse]_vars

InitOfBlock == InitSession /\ InitBlock /\ IdleResolve /\ IdleGather /\ IdleDownload /\ IdleScript
NextBlock == InstallFinish

\* installCodeServer from line 106 on, for every stdout with one block.
SpecBlock == InitOfBlock /\ [][NextBlock]_vars

InitOfResolve == InitSession /\ IdleInstall /\ InitResolve /\ IdleGather /\ IdleDownload /\ IdleScript
NextResolve ==
    \/ ResolveDetect
    \/ ResolveLocal
    \/ ResolveCacheCheck
    \/ ResolveDownload

\* One call of getOrDownloadServerOnRemote.
SpecResolve == InitOfResolve /\ [][NextResolve]_vars

InitOfGather == InitSession /\ IdleInstall /\ IdleResolve /\ InitGather /\ IdleDownload /\ IdleScript
NextGather ==
    \/ GatherStart
    \/ \E i \in 1..Len(DEFAULT_IDENTITY_FILES) : ReadSettle(i)
    \/ GatherParse
    \/ GatherAgent

\* One call of gatherIdentityFiles.
SpecGather == InitOfGather /\ [][NextGather]_vars

InitOfDownload == InitSession /\ IdleInstall /\ IdleResolve /\ IdleGather /\ InitDownload /\ IdleScript
NextDownload ==
    \/ DownloadStart
    \/ DownloadRespond
    \/ DownloadFinish

\* One call of downloadServer; every event of the request is delivered.
SpecDownload == InitOfDownload /\ [][NextDownload]_vars
SpecDownloadLive == SpecDownload /\ WF_vars(NextDownload)

InitOfScript ==
    InitSession /\ IdleInstall /\ IdleResolve /\ IdleGather /\ IdleDownload /\ InitScript
NextScript ==
    \/ \E r \in Runs :
          \/ ScriptCheck(r)
          \/ ScriptRotate(r)
          \/ ScriptWriteToken(r)
          \/ ScriptLaunch(r)
          \/ ScriptRecordPid(r)
          \/ ScriptReadToken(r)
          \/ ScriptLogTest(r)
          \/ ScriptPoll(r)
    \/ \E p \in 1..(NumRuns + 1) :
          \/ ServerBoot(p)
          \/ ServerListen(p)
          \/ ServerExit(p)

\* The runs of the install script of one commit on one remote host.
SpecScript == InitOfScript /\ [][NextScript]_vars

\* =========================================================================
\*                   Properties of the session (Spec)
\* =========================================================================
\* The step is a call of `kind` by caller c: its first code segment ran.
Called(c, kind) ==
    /\ ncalls' = ncalls + 1
    /\ pc[c] \in {"idle", "done"}
    /\ pc'[c] # "idle"
    /\ op'[c].kind = kind

\* The step starts a transport call (a handshake, exec, upload, forward or
\* disconnect) for some caller.
StartsTransportCall ==
    \E d \in Callers :
        /\ pc'[d] \in {"handshake", "transport_wait", "forward_wait", "disconnect_wait"}
        /\ pc'[d] # pc[d]

\* C1: a connect() that overlaps a connect() waiting for its handshake starts
\* no second handshake: two connect() calls never both have one in flight.
C1_OneHandshakeInFlight ==
    \A c, d \in Callers :
        (c # d /\ op[c].kind = "connect" /\ op[d].kind = "connect")
            => ~(pc[c] = "handshake" /\ pc[d] = "handshake")

\* C2: when an addTunnel call has returned on a connected session and the next
\* call on the session is an addTunnel that resolves to the same name (given
\* or defaulted to remoteAddr:remotePort), the second call returns the first
\* call's port and invokes forwardPort itself not at all, so the transport was
\* asked at most once, by the first call, whose port is the one the transport
\* reported (an ephemeral one when local port 0 was requested).
C2_SameNameSamePort ==
    \A c \in Callers :
        (pc[c] = "done" /\ op[c].kind = "addTunnel" /\ prior[c].set)
            => /\ result[c].ok
               /\ result[c].port = prior[c].port
               /\ seqAdd.set /\ seqAdd.name = prior[c].name
               /\ seqAdd.fwd = 0
               /\ prior[c].fwd <= 1
               /\ (prior[c].fwd = 1 => prior[c].port = prior[c].reported)

\* The second of two addTunnel calls with one name has returned; the first one
\* opened the forward, with local port 0 requested.
C2_Witness ==
    \E c \in Callers :
        /\ pc[c] = "done" /\ op[c].kind = "addTunnel" /\ prior[c].set
        /\ prior[c].fwd = 1
        /\ prior[c].reported >= 49152
        /\ result[c].ok /\ result[c].port = prior[c].reported

\* C6: once a handshake has failed the session is Failed: no later call starts
\* another handshake.
C6_NoHandshakeAfterFailure ==
    [][failed => \A c \in Callers : pc'[c] = "handshake" => pc[c] = "handshake"]_vars

\* C7: a close() on a session with a handle invokes disconnect once, on that
\* handle, and when it returns the session has no handle and no tunnels; a
\* close() on a session without a handle makes no transport call; a connect()
\* on a session without a handle starts a handshake, and the handle a handshake
\* yields is none that was issued or disconnected before.
C7_CloseReleasesTransport ==
    [][\A c \in Callers :
          /\ (Called(c, "close") /\ sessionId # Null)
                => /\ pc'[c] = "disconnect_wait"
                   /\ arg'[c] = sessionId
                   /\ disconnected' = disconnected \cup {sessionId}
          /\ (pc[c] = "disconnect_wait" /\ pc'[c] = "done" /\ result'[c].ok)
                => /\ sessionId' = Null
                   /\ tunnels' = EmptyMap
                   /\ arg[c] \in disconnected
                   /\ disconnected' = disconnected
          /\ (Called(c, "close") /\ sessionId = Null)
                => /\ pc'[c] = "done" /\ result'[c].ok
                   /\ ~StartsTransportCall
                   /\ UNCHANGED <<sessionId, tunnels, issued, disconnected, forwards>>
          /\ (Called(c, "connect") /\ sessionId = Null) => pc'[c] = "handshake"
          /\ (pc[c] = "handshake" /\ issued' # issued)
                => /\ sessionId' # Null
                   /\ sessionId' \notin (1..issued) \cup disconnected
      ]_vars

\* A close() has just returned after two calls, the other one an addTunnel that
\* opened a forward: close() was called on the connected session, disconnect
\* was invoked on its handle, and the handle and the tunnel are gone.
C7_Witness ==
    \E c \in Callers :
        /\ pc[c] = "done" /\ op[c].kind = "close" /\ result[c].ok
        /\ ncalls = 2 /\ forwards # {}
        /\ disconnected = {1}
        /\ sessionId = Null /\ tunnels = EmptyMap

\* C8: connect() on a session that has a handle returns at once: no transport
\* call is started, and the handle and the tunnel table stay as they are.
C8_ConnectIdempotent ==
    [][\A c \in Callers :
          (Called(c, "connect") /\ sessionId # Null)
              => /\ pc'[c] = "done" /\ result'[c].ok
                 /\ ~StartsTransportCall
                 /\ UNCHANGED <<sessionId, tunnels, issued, disconnected, forwards>>
      ]_vars

\* A connect() has just returned on a session with a tunnel after two calls and
\* one handshake: the other call was the addTunnel that opened the tunnel and
\* made the handshake, and connect() found the handle in place.
C8_Witness ==
    \E c \in Callers :
        /\ pc[c] = "done" /\ op[c].kind = "connect" /\ result[c].ok
        /\ ncalls = 2 /\ issued = 1 /\ sessionId = 1
        /\ tunnels # EmptyMap

\* C9: every addTunnel call with socks set fails, with the SOCKS error: no such
\* call returns a tunnel.
C9_SocksRequestFails ==
    \A c \in Callers :
        (pc[c] = "done" /\ op[c].kind = "addTunnel" /\ TruthyBool(op[c].cfg, "socks"))
            => ~result[c].ok

\* =========================================================================
\*                   Properties of installCodeServer (SpecInstall, SpecParse)
\* =========================================================================
IncompleteError == "Sidecar archive upload incomplete"

\* C3: after the upload of the archive, a first remote size equal to the local
\* size means no second upload; any other first size means the remote file is
\* removed and uploaded once more, and then the install goes on exactly when
\* the size read after that retry equals the local size, and fails otherwise
\* with a ServerInstallError quoting the local and the remote size.  No install
\* uploads more than twice.
C3_VerifyWithOneRetry ==
    LET local == Num(localArchiveSize)
        n == Len(sizesRead)
        incomplete == outcome.status = "ServerInstallError" /\ outcome.message = IncompleteError
    IN  /\ uploads <= 2
        /\ removes = uploads
        /\ n <= 2
        /\ (n >= 1 /\ sizesRead[1] = local) => (n = 1 /\ uploads = 1 /\ ~incomplete)
        /\ (n = 1 /\ sizesRead[1] # local)
              => (~incomplete /\ ipc \in {"retry", "recheck", "done"}
                   /\ (ipc = "done" => outcome = TransportFailure))
        /\ n = 2 => (sizesRead[1] # local /\ uploads = 2)
        /\ n = 2 => IF sizesRead[2] = local
                    THEN ipc \in {"script", "parse", "done"} /\ ~incomplete
                    ELSE /\ ipc = "done"
                         /\ outcome = Failure("ServerInstallError", IncompleteError,
                                              <<local, IF sizesRead[2] = Undefined
                                                       THEN Str(<<"missing">>)
                                                       ELSE sizesRead[2]>>)
        /\ incomplete => n = 2

\* The first size read was short, the archive was uploaded again, the second
\* size equals the local size and the install goes on to run the script.
C3_Witness ==
    /\ ipc = "script"
    /\ Len(sizesRead) = 2
    /\ sizesRead[1] = Num(MaxArchiveSize - 1)
    /\ sizesRead[2] = Num(MaxArchiveSize)
    /\ localArchiveSize = MaxArchiveSize
    /\ uploads = 2

\* C11: while the server binary is a file on the remote host, no step of the
\* install uploads or removes the archive or reads its size, and the install
\* script neither deletes nor extracts anything in the server directory: all
\* it does there is start the server when none is running.
C11_InstalledServerIsKept ==
    [][serverBinary
          => /\ uploads' = uploads /\ removes' = removes /\ sizesRead' = sizesRead
             /\ remoteFile' = remoteFile
             /\ serverBinary'
             /\ ran' \in {ran, <<>>, <<"start-server">>}
             /\ ipc' \notin {"upload", "verify", "retry", "recheck"}]_vars

\* An install that found the server binary in place has returned a result: it
\* uploaded nothing and its script only started the server.
C11_Witness ==
    /\ ipc = "done" /\ outcome.status = "ok"
    /\ serverInstalled /\ serverBinary
    /\ uploads = 0 /\ removes = 0 /\ sizesRead = <<>>
    /\ ran = <<"start-server">>

\* The places in str where pat occurs, counted from 0.
MarkerAt(str, pat) ==
    {i \in 0..(Len(str) - Len(pat)) : SubSeq(str, i + 1, i + Len(pat)) = pat}

\* An end marker follows the last start marker of str.
HasLastPair(str) ==
    /\ MarkerAt(str, StartMarker) # {}
    /\ IndexOf(str, EndMarker, Max(MarkerAt(str, StartMarker)) + Len(StartMarker)) >= 0

\* The map of the lines between the last start marker of str and the end
\* marker that follows it.
LastPair(str) ==
    LET s == Max(MarkerAt(str, StartMarker))
        e == IndexOf(str, EndMarker, s + Len(StartMarker))
    IN  [found |-> TRUE,
         map |-> ResultMapOf(SplitLines(Substring(str, s + Len(StartMarker), e)))]

\* C4: when the start marker or the end marker occurs more than once in the
\* script's stdout, the result of the install is the one read from the fields
\* between the last start marker and its end marker.
C4_LastMarkerPair ==
    (/\ ipc = "done"
     /\ HasLastPair(stdout)
     /\ \/ Cardinality(MarkerAt(stdout, StartMarker)) > 1
        \/ Cardinality(MarkerAt(stdout, EndMarker)) > 1)
        => outcome = Classify(LastPair(stdout), envVariables)

\* A line of the shape key==value== with a key.
WellFormedLine(line) ==
    LET parts == Split(line, <<"=", "=">>)
    IN  Len(parts) = 3 /\ parts[1] # <<>> /\ parts[3] = <<>>

\* The lines between the first start marker of str and the end marker that
\* follows it.
FramedLines(str) ==
    LET s == IndexOf(str, StartMarker, 0)
        e == IndexOf(str, EndMarker, s + Len(StartMarker))
    IN  SplitLines(Substring(str, s + Len(StartMarker), e))

\* The fields installCodeServer reads to decide the outcome.
RequiredFields == {"exitCode", "listeningOn"}

\* str lacks a marker, or has between the markers a line that is not empty and
\* not of the shape key==value==, or lacks a required field there.
FramingError(str) ==
    \/ IndexOf(str, StartMarker, 0) < 0
    \/ IndexOf(str, EndMarker, IndexOf(str, StartMarker, 0) + Len(StartMarker)) < 0
    \/ \E i \in DOMAIN FramedLines(str) :
          FramedLines(str)[i] # <<>> /\ ~WellFormedLine(FramedLines(str)[i])
    \/ \E f \in RequiredFields :
          \A i \in DOMAIN FramedLines(str) : LineKey(FramedLines(str)[i]) # <<f>>

\* C5: an install output with a framing error makes installCodeServer fail
\* with the ServerInstallError for output that cannot be parsed, which is not
\* the error for a non-zero exit status.
C5_FramingErrorIsParseError ==
    (ipc = "done" /\ FramingError(stdout))
        => /\ outcome.status = "ServerInstallError"
           /\ outcome.message = ParseError
           /\ ParseError # ExitStatusError

\* ---------------------------------------------------------- one block (SpecBlock)
\* The exitCode field of the block, as the parser read it.
ExitCodeField == Field(parseServerInstallOutput(stdout).map, "exitCode")

\* C12: installCodeServer returns a result only if the exitCode field of the
\* block is 0; for every other field value, a number that is not 0, a missing
\* field or a value that is no number, it fails with a ServerInstallError.
C12_ResultOnlyForExitCodeZero ==
    ipc = "done"
        => /\ outcome.status = "ok" => ExitCodeField = Str(<<"0">>)
           /\ ExitCodeField # Str(<<"0">>) => outcome.status = "ServerInstallError"

\* The lines of str, without the empty piece after the last line feed.
LinesOf(str) ==
    LET ls == SplitLines(str) IN SubSeq(ls, 1, Len(ls) - 1)

\* The lines strictly between the start marker line and the end marker line
\* of a stdout that has one of each.
BlockFields(str) ==
    LET ls == LinesOf(str)
        s == CHOOSE i \in DOMAIN ls : ls[i] = StartLine
        e == CHOOSE i \in DOMAIN ls : ls[i] = EndLine
    IN  SubSeq(ls, s + 1, e - 1)

\* The key and the value of a line key==value==, read off by position.
KeyOf(line) == <<line[1]>>
ValueOf(line) == SubSeq(line, 4, Len(line) - 2)

\* The pairs of a block: for every key, the value of its last line.
BlockPairs(fields) ==
    [k \in {KeyOf(fields[i]) : i \in DOMAIN fields} |->
        Str(ValueOf(fields[Max({i \in DOMAIN fields : KeyOf(fields[i]) = k})]))]

ResultFields == {<<f>> : f \in FixedFields \cup {"exitCode", "listeningOn"}}

\* C14: the keys of a returned result are among the eight fixed fields and
\* the requested environment variables: a key of the output that was not
\* requested is not in the result.
C14_OnlyRequestedKeys ==
    (ipc = "done" /\ outcome.status = "ok")
        => /\ DOMAIN outcome.value \subseteq ResultFields \cup envVariables
           /\ \A k \in DOMAIN parseServerInstallOutput(stdout).map :
                 k \notin ResultFields \cup envVariables => k \notin DOMAIN outcome.value

\* A result was returned for an output that holds PATH, which was not requested.
C14_Witness ==
    /\ ipc = "done" /\ outcome.status = "ok"
    /\ envVariables = {}
    /\ <<"PATH">> \in DOMAIN parseServerInstallOutput(stdout).map
    /\ <<"PATH">> \notin DOMAIN outcome.value

\* =========================================================================
\*                   Properties of gatherIdentityFiles (SpecGather)
\* =========================================================================
\* The inputs of the call, read from the disk and the agent and not from what
\* the call computed.
\* The indexes of the path list whose file holds a private key.
ParsableIndexes ==
    {i \in DOMAIN identityFiles : DiskAt(identityFiles[i]).kind = "key"}

\* The identities the agent hands out.
AgentIdentities == IF agent.sock /\ ~agent.failing THEN agent.keys ELSE <<>>

FilesHolding(k) == {i \in ParsableIndexes : DiskAt(identityFiles[i]).key = k}
AgentListing(k) == {j \in DOMAIN AgentIdentities : AgentIdentities[j] = k}

\* The pairs of one agent identity and one file identity of the same type and
\* fingerprint, no identity in two pairs.
PairsOf(k) ==
    IF Cardinality(FilesHolding(k)) <= Cardinality(AgentListing(k))
    THEN Cardinality(FilesHolding(k)) ELSE Cardinality(AgentListing(k))
MergedPairs == PairsOf(KeyA) + PairsOf(KeyB) + PairsOf(KeyC)

\* The agent identities for which some file identity has the same type and
\* fingerprint.
AgentMatching ==
    {j \in DOMAIN AgentIdentities : FilesHolding(AgentIdentities[j]) # {}}

\* The entry is a file identity that was merged with an agent identity: it is
\* agent-backed and carries the path of a file that holds its key.
IsMerged(entry) ==
    /\ entry.agentSupport
    /\ \E i \in ParsableIndexes :
          /\ entry.filename = identityFiles[i]
          /\ entry.type = DiskAt(identityFiles[i]).key.type
          /\ entry.fingerprint = Fingerprint(DiskAt(identityFiles[i]).key)

\* C15 (as the code has it): for N parsable file identities and M agent
\* identities of which K are paired with a file identity of the same type and
\* fingerprint (each file identity in one pair at most), the call returns
\* N+M-K identities when identitiesOnly is false and N when it is true; the K
\* merged identities are agent-backed, keep the file's path, and are the first
\* K entries.
C15_MergedCount ==
    gpc = "done" =>
        /\ Len(gresult.keys) =
              IF identitiesOnly THEN Cardinality(ParsableIndexes)
              ELSE Cardinality(ParsableIndexes) + Len(AgentIdentities) - MergedPairs
        /\ MergedPairs <= Len(gresult.keys)
        /\ \A i \in DOMAIN gresult.keys : i <= MergedPairs <=> IsMerged(gresult.keys[i])

\* Two file identities, two agent identities, one of them in both.
C15_Witness ==
    /\ gpc = "done"
    /\ ~identitiesOnly
    /\ Cardinality(ParsableIndexes) = 2
    /\ Len(AgentIdentities) = 2
    /\ MergedPairs = 1
    /\ Len(gresult.keys) = 3
    /\ IsMerged(gresult.keys[1])

\* C15 (as stated): with K the agent identities that match a file identity,
\* the call returns N+M-K identities whatever identitiesOnly is, the K merged
\* ones first.
C15_CountForEveryMode ==
    gpc = "done" =>
        /\ Len(gresult.keys) =
              Cardinality(ParsableIndexes) + Len(AgentIdentities) - Cardinality(AgentMatching)
        /\ \A i \in DOMAIN gresult.keys :
              i <= Cardinality(AgentMatching) => IsMerged(gresult.keys[i])

\* The members of a set of indexes, in increasing order.
InOrder(S) ==
    CHOOSE f \in [1..Cardinality(S) -> S] : \A a, b \in 1..Cardinality(S) : a < b => f[a] < f[b]

\* The j-th agent identity is the n-th of its key in the agent's list, the
\* i-th path is the n-th of its key in the path list.
AgentOccurrence(j) == Cardinality({j2 \in AgentListing(AgentIdentities[j]) : j2 <= j})
FileOccurrence(i) == Cardinality({i2 \in FilesHolding(DiskAt(identityFiles[i]).key) : i2 <= i})

\* The agent identities that find a file identity still unmatched, and the
\* file each one takes; the file identities no agent identity takes.
MatchedAgent ==
    {j \in DOMAIN AgentIdentities :
        AgentOccurrence(j) <= Cardinality(FilesHolding(AgentIdentities[j]))}
FileTakenBy(j) ==
    CHOOSE i \in FilesHolding(AgentIdentities[j]) : FileOccurrence(i) = AgentOccurrence(j)
UnmatchedAgent == DOMAIN AgentIdentities \ MatchedAgent
RemainingFiles ==
    {i \in ParsableIndexes :
        FileOccurrence(i) > Cardinality(AgentListing(DiskAt(identityFiles[i]).key))}

\* The three groups of the result, each in its order.
MatchedGroup ==
    [n \in 1..Cardinality(MatchedAgent) |->
        [FileKey(identityFiles[FileTakenBy(InOrder(MatchedAgent)[n])],
                 AgentIdentities[InOrder(MatchedAgent)[n]]) EXCEPT !.agentSupport = TRUE]]
UnmatchedAgentGroup ==
    IF identitiesOnly THEN <<>>
    ELSE [n \in 1..Cardinality(UnmatchedAgent) |->
            AgentKey(AgentIdentities[InOrder(UnmatchedAgent)[n]])]
RemainingFileGroup ==
    [n \in 1..Cardinality(RemainingFiles) |->
        FileKey(identityFiles[InOrder(RemainingFiles)[n]],
                DiskAt(identityFiles[InOrder(RemainingFiles)[n]]).key)]

\* C17: the result is the identities matched between agent and file in agent
\* order, then the unmatched agent identities (none when identitiesOnly is
\* true), then the remaining file identities in the order of the path list,
\* in whatever order the reads of the key files settled.
C17_ResultOrder ==
    gpc = "done" =>
        gresult.keys = MatchedGroup \o UnmatchedAgentGroup \o RemainingFileGroup

\* A result with the three groups: a merged identity, an identity of the
\* agent alone, an identity of a file alone.
C17_Witness ==
    /\ gpc = "done"
    /\ Len(identityFiles) = 2
    /\ MatchedGroup # <<>> /\ UnmatchedAgentGroup # <<>> /\ RemainingFileGroup # <<>>
    /\ Len(gresult.keys) = 3
    /\ gresult.keys[2].agentSupport /\ ~IsMerged(gresult.keys[2])
    /\ ~gresult.keys[3].agentSupport

\* The parsable file identities, in the order of the path list.
ParsableFileIdentities ==
    [n \in 1..Cardinality(ParsableIndexes) |->
        FileKey(identityFiles[InOrder(ParsableIndexes)[n]],
                DiskAt(identityFiles[InOrder(ParsableIndexes)[n]]).key)]

\* C18: no missing, unreadable or unparsable key file and no absent or failing
\* agent makes the call throw: it ends by returning a list; no entry of the
\* list names a path without a parsable key file; without a socket or with a
\* failing agent the list is exactly the parsable file identities.
C18_ErrorsAreSkipped ==
    /\ gresult.status \in {"none", "ok"}
    /\ gpc = "done" =>
          /\ gresult.status = "ok"
          /\ \A n \in DOMAIN gresult.keys :
                \/ gresult.keys[n] \in {AgentKey(k) : k \in {KeyA, KeyB, KeyC}}
                \/ \E i \in ParsableIndexes : gresult.keys[n].filename = identityFiles[i]
          /\ \A i \in DOMAIN identityFiles \ ParsableIndexes :
                \A n \in DOMAIN gresult.keys : gresult.keys[n].filename # identityFiles[i]
          /\ ~agent.sock \/ agent.failing => gresult.keys = ParsableFileIdentities

\* The agent fails, one path holds no key, another holds one.
C18_Witness ==
    /\ gpc = "done"
    /\ agent = FailingAgent
    /\ \E i \in DOMAIN identityFiles : DiskAt(identityFiles[i]).kind \in {"garbage", "unreadable", "missing"}
    /\ Cardinality(ParsableIndexes) = 1
    /\ Len(gresult.keys) = 1
    /\ ~gresult.keys[1].agentSupport

\* C16: the returned list never has two entries of the same key type and
\* fingerprint.
C16_NoDuplicateIdentity ==
    gpc = "done" =>
        \A i, j \in DOMAIN gresult.keys :
            i < j => <<gresult.keys[i].type, gresult.keys[i].fingerprint>>
                        # <<gresult.keys[j].type, gresult.keys[j].fingerprint>>

\* =========================================================================
\*                   Properties of getOrDownloadServerOnRemote (SpecResolve)
\* =========================================================================
\* C10: when the call returns the remote path, every transfer of the archive
\* it made (the upload of the local file, the download on the remote host) was
\* followed by a read of the remote file's size.
C10_TransferThenSizeCheck ==
    rresult.status = "ok"
        => \A i \in DOMAIN rlog :
              rlog[i] \in {"uploadFile", "exec download script"}
                  => \E j \in DOMAIN rlog : j > i /\ rlog[j] = "exec wc -c"

\* C19: after detectRemoteSystem the trimmed output x86_64 or amd64 gave x64,
\* aarch64 or arm64 gave arm64, and every other output made the call throw
\* 'Unsupported architecture' with nothing done on the connection but the
\* `uname -m` itself: no test for the cached file, no upload, no download,
\* and no arch chosen.
C19_ArchMapping ==
    rpc \notin {"idle", "start"} =>
        LET archOutput == Trim(unameOut)
        IN  /\ archOutput \in {<<"x86_64">>, <<"amd64">>} =>
                  arch = "x64" /\ rresult # ThrewError("Unsupported architecture")
            /\ archOutput \in {<<"aarch64">>, <<"arm64">>} =>
                  arch = "arm64" /\ rresult # ThrewError("Unsupported architecture")
            /\ archOutput \notin {<<"x86_64">>, <<"amd64">>, <<"aarch64">>, <<"arm64">>} =>
                  /\ rpc = "done"
                  /\ rresult = ThrewError("Unsupported architecture")
                  /\ rlog = <<"exec uname -m">>
                  /\ arch = ""

\* The remote host answered sparc64 and the call has thrown.
C19_Witness ==
    /\ rpc = "done"
    /\ Trim(unameOut) = <<"sparc64">>
    /\ rresult.status = "Error"

\* The step adds the call to the log of the connection.
Adds(call) ==
    /\ \A i \in DOMAIN rlog : rlog[i] # call
    /\ \E i \in DOMAIN rlog' : rlog'[i] = call

\* How many times the call is in a log.
TimesIn(log, call) == Cardinality({i \in DOMAIN log : log[i] = call})

\* C20: first match wins. The upload happens only with the local file of the
\* arch, and then neither the test for the cached file nor a download; the
\* test happens only without the local file, and a cached file is returned
\* as it is; the download happens only without local file and without cached
\* file, once. A successful call returns the fixed remote cache path.
C20_Precedence ==
    [][ /\ Adds("uploadFile") =>
              /\ getLocalServerPath(localDist, arch)
              /\ TimesIn(rlog', "exec test -f") = 0
              /\ TimesIn(rlog', "exec download script") = 0
              /\ rpc' = "done"
        /\ rpc = "local" /\ getLocalServerPath(localDist, arch) => Adds("uploadFile")
        /\ Adds("exec test -f") =>
              /\ ~getLocalServerPath(localDist, arch)
              /\ remoteCache.exists =>
                    /\ rpc' = "done" /\ rresult' = ReturnedPath
                    /\ remoteCache' = remoteCache
                    /\ TimesIn(rlog', "exec download script") = 0
        /\ Adds("exec download script") =>
              /\ ~getLocalServerPath(localDist, arch)
              /\ ~remoteCache.exists
              /\ TimesIn(rlog, "exec test -f") = 1
              /\ rpc' = "done"
        /\ rpc = "download" => Adds("exec download script")
        /\ rresult'.status = "ok" =>
              /\ rresult'.path = "remoteServerDir/cache/server.tar.gz"
              /\ TimesIn(rlog', "uploadFile") + TimesIn(rlog', "exec download script") <= 1
              /\ TimesIn(rlog', "uploadFile") = 1 <=> getLocalServerPath(localDist, arch)
    ]_vars

\* No local file, no cached file: the call downloaded once and returned.
C20_Witness ==
    /\ rpc = "done" /\ rresult = ReturnedPath
    /\ ~getLocalServerPath(localDist, arch)
    /\ rlog = <<"exec uname -m", "exec test -f", "exec mkdir -p", "exec download script">>

\* =========================================================================
\*                   Unsupported environments (SpecInstall)
\* =========================================================================
\* The install script met a kernel that is not Linux or a machine
\* architecture it does not know (lines 267-292).
ScriptMetUnsupported ==
    /\ scriptEnv # <<>>
    /\ ~scriptEnv[1].linux \/ ~scriptEnv[1].archOk

\* C21: when the install script meets a non-Linux kernel or an unrecognized
\* architecture, installCodeServer fails with an error that names the
\* condition, not with the bare 'non-zero exit status' error.
C21_UnsupportedIsSpecific ==
    ipc = "done" /\ ScriptMetUnsupported =>
        /\ outcome.status = "ServerInstallError"
        /\ outcome.message # ExitStatusError

\* =========================================================================
\*                   Failures and overlapping calls on the session (Spec)
\* =========================================================================
\* The step is the failure of the transport call caller c was waiting for.
TransportCallFailed(c) ==
    /\ pc[c] \in {"transport_wait", "forward_wait"}
    /\ pc'[c] = "done"
    /\ ~result'[c].ok

\* C22: when NativeSSH.exec, NativeSSH.uploadFile or NativeSSH.forwardPort
\* fails, the call that made it throws the transport's error and nothing else
\* changes: the session keeps its handle and its tunnel table, and no forward
\* is recorded.
C22_FailureFailsOnlyTheCall ==
    [][\A c \in Callers :
          TransportCallFailed(c) =>
              /\ result'[c] = Threw(TransportError)
              /\ sessionId' = sessionId
              /\ tunnels' = tunnels
              /\ forwards' = forwards
              /\ \A d \in Callers \ {c} : pc'[d] \in {pc[d], "idle"}]_vars

\* An addTunnel has failed at its forward on a session that never failed a
\* handshake: the session has its handle and no entry of the tunnel's name.
C22_Witness ==
    \E c \in Callers :
        /\ pc[c] = "done"
        /\ op[c].kind = "addTunnel"
        /\ result[c] = Threw(TransportError)
        /\ ~failed
        /\ sessionId # Null
        /\ TunnelName(op[c].cfg) \notin DOMAIN tunnels

\* C23: a session without a transport handle has an empty tunnel table.
C23_NoHandleNoTunnels == sessionId = Null => tunnels = EmptyMap

\* The step invokes NativeSSH.exec, NativeSSH.uploadFile or
\* NativeSSH.forwardPort for caller c.
InvokesTransport(c) ==
    /\ pc'[c] \in {"transport_wait", "forward_wait"}
    /\ pc[c] \notin {"transport_wait", "forward_wait"}

\* C27: no exec, upload or forward is invoked on a handle on which close() has
\* invoked NativeSSH.disconnect.
C27_NoCallAfterDisconnect ==
    [][\A c \in Callers : InvokesTransport(c) => arg'[c] \notin disconnected]_vars

\* The forwards the transport holds on the session's current handle.
OpenForwards == {f \in forwards : sessionId # Null /\ f.handle = sessionId}

\* C28: every forward opened on the current handle is the entry of one tunnel
\* name, and no two forwards are open for one name: the table accounts for
\* each forward by its local port, and there are no more forwards than names.
C28_ForwardsAreInTable ==
    /\ \A f \in OpenForwards : \E n \in DOMAIN tunnels : tunnels[n] = f.lport
    /\ Cardinality(OpenForwards) <= Cardinality(DOMAIN tunnels)

\* C29: when close() has settled, by return or by a failure of
\* NativeSSH.disconnect, the handle is cleared and the tunnel table is empty.
C29_CloseAlwaysClears ==
    [][\A c \in Callers :
          pc[c] = "disconnect_wait" /\ pc'[c] = "done"
              => sessionId' = Null /\ tunnels' = EmptyMap]_vars

\* =========================================================================
\*                   Properties of downloadServer (SpecDownloadLive)
\* =========================================================================
\* C24: whatever the server answers, redirects included, downloadServer
\* makes finitely many requests and its promise is resolved or rejected in
\* the end.
C24_DownloadSettles == <>(dpc = "done")

\* =========================================================================
\*                   Properties of the install script (SpecScript)
\* =========================================================================
\* The tokens that exist on the remote host or in a run.
TokensInUse ==
    {tokenFile.content} \cup {procs[p].token : p \in DOMAIN procs}
        \cup {run[q].token : q \in Runs}

\* C25: a run that found the server running launches nothing, changes none of
\* the log, pid and token files, and takes its connectionToken from the token
\* file as it is; a run that did not find it removes the log and token files,
\* writes a token no one has to a token file of mode 600, launches one
\* server, once, and writes that server's pid to the pid file.
C25_LivenessBranch ==
    [][\A r \in Runs :
          run'[r] # run[r] =>
              /\ run[r].pos = "check" =>
                    /\ UNCHANGED <<procs, pidFile, tokenFile, logFile>>
                    /\ run'[r].found = ServerRunningProcess
              /\ run[r].pos # "check" /\ run[r].found =>
                    /\ UNCHANGED <<procs, pidFile, tokenFile, logFile>>
                    /\ run'[r].launched = NoPid
                    /\ run[r].pos = "token" /\ tokenFile.exists =>
                          run'[r].token = tokenFile.content
                    /\ run[r].pos # "token" => run'[r].token = run[r].token
              /\ run[r].pos # "check" /\ ~run[r].found =>
                    /\ run[r].pos = "rotate" =>
                          /\ ~logFile'.exists /\ ~tokenFile'.exists
                          /\ UNCHANGED <<procs, pidFile>>
                    /\ run[r].pos = "mktoken" =>
                          /\ run'[r].token \notin TokensInUse
                          /\ tokenFile' = TokenFile(run'[r].token, 600)
                          /\ UNCHANGED <<procs, pidFile, logFile>>
                    /\ run[r].pos = "launch" =>
                          /\ run[r].launched = NoPid
                          /\ Len(procs') = Len(procs) + 1
                          /\ SubSeq(procs', 1, Len(procs)) = procs
                          /\ procs'[Len(procs')].alive
                          /\ run'[r].launched = Len(procs')
                          /\ UNCHANGED <<pidFile, tokenFile>>
                    /\ run[r].pos = "recordpid" =>
                          /\ pidFile' = run[r].launched
                          /\ UNCHANGED <<procs, tokenFile, logFile>>
                    /\ run[r].pos \in {"token", "logtest", "poll"} =>
                          /\ run[r].launched # NoPid
                          /\ run'[r].launched = run[r].launched
                          /\ UNCHANGED <<procs, pidFile, tokenFile, logFile>>]_vars

\* One run found no server, launched one and reported it; another run found
\* that server and reported it with the token of the file.
C25_Witness ==
    \E r, q \in Runs :
        /\ run[r].pos = "done" /\ ~run[r].found /\ run[r].launched # NoPid
        /\ run[r].exitCode = 0
        /\ run[q].pos = "done" /\ run[q].found /\ run[q].launched = NoPid
        /\ run[q].exitCode = 0
        /\ run[q].token = tokenFile.content
        /\ Len(procs) = 1

\* print_install_results_and_exit, lines 252-265: the block a run prints for
\* a code and the $LISTENING_ON it holds (empty when 0); the lines after
\* listeningOn do not depend on the loop and are left out.
PrintInstallResults(code, listening) ==
    Echo(<<StartLine,
           <<"exitCode", "=", "=">> \o ToDigits(code) \o <<"=", "=">>,
           <<"listeningOn", "=", "=">>
               \o (IF listening = 0 THEN <<>> ELSE ToDigits(listening))
               \o <<"=", "=">>,
           EndLine>>)

\* C26: a run reads the log at most PollAttempts times; while it polls it has
\* seen no listening line; a run that saw one has stopped and reports it with
\* exitCode 0, and the address is the one a launched server listens on; a run
\* that saw none in PollAttempts reads reports exitCode 1 and installCodeServer
\* throws the exit-status error for its block; a block with exitCode 0 has a
\* non-empty listeningOn, which installCodeServer returns.
C26_PollBounded ==
    \A r \in Runs :
        LET s == run[r]
            polled == s.pos = "done" /\ s.attempts >= 1
        IN  /\ s.attempts <= PollAttempts
            /\ s.pos = "poll" =>
                  s.attempts < PollAttempts /\ s.listeningOn = 0 /\ s.exitCode = -1
            /\ s.exitCode = 0 =>
                  /\ polled
                  /\ s.listeningOn # 0
                  /\ \E p \in DOMAIN procs : s.listeningOn = PortOf(p)
            /\ polled /\ s.listeningOn # 0 => s.exitCode = 0
            /\ polled /\ s.listeningOn = 0 =>
                  s.attempts = PollAttempts /\ s.exitCode = 1
            /\ s.pos = "done" =>
                  LET res == InstallResultOf(PrintInstallResults(s.exitCode, s.listeningOn), {})
                  IN  IF s.exitCode = 0
                      THEN /\ res.status = "ok"
                           /\ res.value[<<"listeningOn">>] = Num(s.listeningOn)
                      ELSE res = Failure("ServerInstallError", ExitStatusError, <<>>)

\* One run read the log PollAttempts times without a listening line and
\* reported exitCode 1; another run saw the line before its last read.
C26_Witness ==
    \E r, q \in Runs :
        /\ run[r].pos = "done" /\ run[r].attempts = PollAttempts
        /\ run[r].listeningOn = 0 /\ run[r].exitCode = 1
        /\ run[q].pos = "done" /\ run[q].attempts \in 1..(PollAttempts - 1)
        /\ run[q].listeningOn # 0 /\ run[q].exitCode = 0

\* The servers the runs launched.
LaunchedByRuns == {run[r].launched : r \in Runs} \ {NoPid}

\* The servers whose address and token a run reports.
ServersOf(r) ==
    {p \in DOMAIN procs :
        PortOf(p) = run[r].listeningOn /\ procs[p].token = run[r].token}

\* The runs launch at most one server between them.
C30_AtMostOneLaunch == Cardinality(LaunchedByRuns) <= 1

\* Every run that reports exitCode 0 reports the address and the token of one
\* server, the same server for all of them.
C30_OnePairOfOneServer ==
    \E p \in DOMAIN procs \cup {NoPid} :
        \A r \in Runs : run[r].exitCode = 0 => p \in ServersOf(r)

\* C30: when runs of the install script overlap on one host, at most one
\* server process is launched, and every run that reports exitCode 0 reports
\* the listeningOn and connectionToken of one and the same server.
C30_OverlappingRunsShareOneServer ==
    C30_AtMostOneLaunch /\ C30_OnePairOfOneServer

\* =========================================================================
\*                   Properties of repeated installs (SpecReinstall)
\* =========================================================================
\* What the install script does in the server directory before it looks for a
\* running server: the removal of line 320 and the extraction of line 324.
TouchesServerDir == \E i \in DOMAIN ran : ran[i] \in {"find -exec rm -rf", "tar -xf"}

\* C31: after an install that returned a result, a later install for the same
\* commit uploads no archive, removes none, and neither removes nor extracts
\* anything in the server directory, whatever the name of the binary the
\* archive held.
C31_ReinstallKeepsServer ==
    installedBefore => uploads = 0 /\ removes = 0 /\ ~TouchesServerDir

\* =========================================================================
\*                   The install wire format (SpecWire)
\* =========================================================================
\* Values a shell variable of the script may hold: a word, a word with `==`
\* in it, nothing.
WireValues == {<<"v">>, <<"a", "=", "=", "b">>, <<>>}

\* The names a caller may ask for in envVariables: none, a variable that is no
\* field of the result, a variable with the name of a fixed field.
WireRequests == {{}, {<<"PATH">>}, {<<"arch">>}}

\* What one run of the script has in its variables when it reaches
\* print_install_results_and_exit 0: $LISTENING_ON (a port, or a socket path),
\* $SERVER_CONNECTION_TOKEN, $ARCH, $TMP_DIR, and the value of the requested
\* environment variable.
WireInputs ==
    [listeningOn : {<<"4", "2">>, <<"/tmp/sock">>},
     connectionToken : {<<"uuid">>},
     arch : {<<"x64">>, <<"arm64">>},
     tmpDir : WireValues,
     env : WireRequests,
     envValue : WireValues]

\* echo "key==$VALUE==", lines 254-262.
KeyValueLine(key, value) == key \o <<"=", "=">> \o value \o <<"=", "=">>

\* print_install_results_and_exit 0, lines 252-265, with every line it prints:
\* the eight fixed fields in their order, then one line per name of
\* envVariables.
ResultBlock(w) ==
    Echo(<<StartLine,
           KeyValueLine(<<"exitCode">>, <<"0">>),
           KeyValueLine(<<"listeningOn">>, w.listeningOn),
           KeyValueLine(<<"connectionToken">>, w.connectionToken),
           KeyValueLine(<<"logFile">>, <<"/home/user/.log">>),
           KeyValueLine(<<"osReleaseId">>, <<"debian">>),
           KeyValueLine(<<"arch">>, w.arch),
           KeyValueLine(<<"platform">>, <<"linux">>),
           KeyValueLine(<<"tmpDir">>, w.tmpDir)>>
         \o (IF w.env = {} THEN <<>>
             ELSE <<KeyValueLine(CHOOSE k \in w.env : TRUE, w.envValue)>>)
         \o <<EndLine>>)

\* What the fields of the result are for the variables of the script, when
\* every value comes back as it was printed.
WireValueOf(w, k) ==
    CASE k = <<"exitCode">> -> Num(0)
      [] k = <<"listeningOn">> ->
             IF AllDigits(w.listeningOn) THEN ParseInt(Str(w.listeningOn))
             ELSE Str(w.listeningOn)
      [] k = <<"connectionToken">> -> Str(w.connectionToken)
      [] k = <<"logFile">> -> Str(<<"/home/user/.log">>)
      [] k = <<"osReleaseId">> -> Str(<<"debian">>)
      [] k = <<"arch">> -> Str(w.arch)
      [] k = <<"platform">> -> Str(<<"linux">>)
      [] k = <<"tmpDir">> -> Str(w.tmpDir)
      [] OTHER -> Str(w.envValue)

\* installCodeServer at line 106, the script having printed the block of some
\* variables, the caller having asked for the names the script echoed.
InitWire ==
    /\ ipc = "parse"
    /\ localArchiveSize = 0
    /\ remoteFile = NoFile
    /\ uploads = 0
    /\ removes = 0
    /\ sizesRead = <<>>
    /\ \E w \in WireInputs : stdout = ResultBlock(w) /\ envVariables = w.env
    /\ outcome = NotRun
    /\ serverBinary = TRUE
    /\ serverInstalled = TRUE
    /\ ran = <<>>
    /\ scriptEnv = <<>>
    /\ installedBefore = FALSE

InitOfReresolve ==
    InitSession /\ IdleInstall /\ InitReresolve /\ IdleGather /\ IdleDownload /\ IdleScript
NextReresolve ==
    \/ NextResolve
    \/ ResolveAgain

\* Calls of getOrDownloadServerOnRemote one after the other for one
\* remoteServerDir.
SpecReresolve == InitOfReresolve /\ [][NextReresolve]_vars

InitOfTryDownload ==
    InitSession /\ IdleInstall /\ IdleResolve /\ IdleGather /\ InitTryDownload /\ IdleScript
NextTryDownload ==
    \E r \in Resolvers :
        \/ TryAccess(r)
        \/ TryDownloadStart(r)
        \/ TryRespond(r)
        \/ TryFinish(r)
        \/ TryInterrupt(r)
        \/ TryAgain(r)

\* Calls of tryDownloadServer for one url, overlapping and one after the other.
SpecTryDownload == InitOfTryDownload /\ [][NextTryDownload]_vars

InitOfWire == InitSession /\ InitWire /\ IdleResolve /\ IdleGather /\ IdleDownload /\ IdleScript
NextWire == InstallFinish

\* installCodeServer from line 106 on, for every block the script prints.
SpecWire == InitOfWire /\ [][NextWire]_vars

\* The variables of the script that printed the stdout of this state.
WireInputsOfState == {w \in WireInputs : stdout = ResultBlock(w) /\ envVariables = w.env}

FixedKeys == {<<f>> : f \in FixedFields \cup {"exitCode", "listeningOn"}}

\* Every fixed field of the result has the value the script printed for it.
C32_FixedFieldsRoundTrip ==
    ipc = "done" =>
        \A w \in WireInputsOfState :
            /\ outcome.status = "ok"
            /\ \A k \in FixedKeys : outcome.value[k] = WireValueOf(w, k)

\* Every requested variable that is no fixed field has the value the script
\* printed for it.
C32_EnvRoundTrip ==
    ipc = "done" =>
        \A w \in WireInputsOfState :
            /\ outcome.status = "ok"
            /\ \A k \in w.env \ FixedKeys :
                  k \in DOMAIN outcome.value /\ outcome.value[k] = Str(w.envValue)

\* C32: the parsed result has, for every fixed field and every requested
\* environment variable, the value the script printed in its key==value==
\* line, values with `==` in them included, and a requested variable leaves
\* the fixed fields as the script printed them.
C32_WireRoundTrip == C32_FixedFieldsRoundTrip /\ C32_EnvRoundTrip

\* =========================================================================
\*                   Properties of tryDownloadServer (SpecTryDownload)
\* =========================================================================
\* C33: a call of tryDownloadServer that returned cachedServerPath returned
\* it when the file at that path was a completely downloaded archive.
C33_CachedPathIsComplete ==
    \A r \in Resolvers :
        tryCall[r].returned = "path" => tryCall[r].fileAtReturn = "complete"

\* =========================================================================
\*                   Properties of the remote cache (SpecReresolve)
\* =========================================================================
\* The call returned the cache path and transferred nothing.
ReturnedWithoutTransfer ==
    /\ rpc = "done"
    /\ rresult = ReturnedPath
    /\ \A i \in DOMAIN rlog : rlog[i] \notin {"uploadFile", "exec download script"}

\* C34: when getOrDownloadServerOnRemote returns the cache path without an
\* upload or a download, the file at the path is a complete archive of the
\* configured version and of the detected arch.
C34_CacheHitIsCurrent ==
    ReturnedWithoutTransfer =>
        /\ remoteCache = File(MaxArchiveSize)
        /\ cacheOf = ArchiveOf(serverVersion, arch)

====
